---- MODULE Spec2Model ----
(***************************************************************************)
(* A model of the widget contracts of iced_native (Radio, Toggler,        *)
(* Tooltip, Text, Rule), of their event dispatch, layout and structural    *)
(* hash, of the Tooltip's overlay placement in the draw pass, of the        *)
(* conversion of iced_graphics primitives and of the Triangle widget of     *)
(* the direct_wgpu example.                                                *)
(*                                                                         *)
(* Numbers.  The source computes in f32.  Every f32 is modelled by the     *)
(* integer 2*v (one binary fractional digit), so that the two divisions    *)
(* by 2.0 of Tooltip::draw are exact for whole-number inputs.  F32 is the  *)
(* conversion f32::from(u16).  Rounding of f32 is not modelled.            *)
(***************************************************************************)
EXTENDS Integers, Sequences, FiniteSets, TLC

VARIABLES
    root,       \* the widget of the user interface: Radio, Toggler or Tooltip
    layout,     \* the bounds of the root's layout Node
    window,     \* the viewport of the window
    renderer,   \* the renderer: its text measurements
    messages,   \* the Vec<Message> handed to on_event
    status,     \* the event::Status returned by the last on_event
    call,       \* the arguments of the last on_event
    built,      \* the root and the queue as they were when the root was built
    calls,      \* the renderer calls of the last draw pass, in order
    overlays,   \* the overlay placements computed by the last draw pass
    depth,      \* the renderer's layer depth
    frame,      \* the arguments of the last draw
    prim,       \* the Primitive<()> handed to the conversion
    converted,  \* the outcome of the conversion to Primitive<B>
    offer,      \* the layout::Limits offered to the root
    laid,       \* the layout::Node the root's layout returned
    hasher,     \* the Hasher the root's hash_layout has fed
    triangle_state, \* the triangle::State of the example
    device,     \* the wgpu device: what the Triangle has made it do
    pipeline,   \* the run of direct_wgpu::Pipeline::draw: jobs, place, passes
    app,        \* the Example application: size, speed, angle
    loop        \* the frame loop: the user interface and its passes

uiVars == <<root, layout, window, renderer>>
eventVars == <<messages, status, call, built>>
drawVars == <<calls, overlays, depth, frame>>
gfxVars == <<prim, converted>>
layoutVars == <<offer, laid, hasher>>
triangleVars == <<triangle_state, device>>
runVars == <<pipeline, app, loop>>
otherVars == <<gfxVars, layoutVars, triangleVars, runVars>>
exceptGfx == <<uiVars, eventVars, drawVars, layoutVars, triangleVars, runVars>>
exceptLayout == <<eventVars, drawVars, gfxVars, triangleVars, runVars>>
exceptTriangle == <<uiVars, eventVars, drawVars, gfxVars, runVars>>
vars == <<uiVars, eventVars, drawVars, otherVars>>

----------------------------------------------------------------------------
(* Bounds of the model *)

MaxQueue == 2       \* longest message queue explored
MaxNest == 2        \* deepest nesting of Tooltips explored
MaxCoord == 2       \* largest cursor coordinate
MaxOrigin == 1      \* largest x = y of the layout bounds and of the viewport
MaxSize == 1        \* largest width / height of the layout bounds
MaxView == 5        \* largest width / height of the viewport
MaxText == 2        \* largest measured width / height of a text
MaxGap == 1         \* largest Tooltip gap
MaxPadding == 1     \* largest Tooltip padding
MaxDepth == 2       \* deepest nesting of a primitive tree
MaxChildren == 2    \* most children of a Group
MaxLimit == 3       \* largest width / height of the layout Limits
MaxUnits == 1       \* largest fixed Length of a widget
MaxRotation == 2    \* largest rotation of the Triangle
MaxDraws == 2       \* most draws of the Triangle
MaxWrites == 2      \* most writes of the uniform buffer of the Triangle
MaxJobs == 2        \* most jobs handed to Pipeline::draw
MaxFrames == 2      \* most frames of the frame loop

----------------------------------------------------------------------------
(* Geometry *)

F32(n) == n * 2

Min(a, b) == IF a < b THEN a ELSE b
Max(a, b) == IF a < b THEN b ELSE a

Point(x, y) == [x |-> x, y |-> y]
Rectangle(x, y, w, h) == [x |-> x, y |-> y, width |-> w, height |-> h]
Size(w, h) == [width |-> w, height |-> h]

\* Rectangle::contains: lower edges inclusive, upper edges exclusive.
Contains(r, p) ==
    /\ r.x <= p.x
    /\ p.x < r.x + r.width
    /\ r.y <= p.y
    /\ p.y < r.y + r.height

----------------------------------------------------------------------------
(* Events and messages *)

MouseLeftPressed == "Mouse(ButtonPressed(Left))"
FingerPressed == "Touch(FingerPressed)"

Events ==
    { MouseLeftPressed, FingerPressed, "Mouse(ButtonPressed(Right))",
      "Mouse(ButtonReleased(Left))", "Mouse(CursorMoved)",
      "Touch(FingerLifted)", "Keyboard(KeyPressed)" }

Captured == "Captured"
Ignored == "Ignored"

Choices == {"A", "B"}

RadioSelected(v) == "RadioSelected(" \o v \o ")"
TogglerToggled(b) == IF b THEN "TogglerToggled(true)" ELSE "TogglerToggled(false)"
TimeTick == "TimeTick"

\* the closures an application binds to a Toggler
TogglerFns ==
    { [b \in BOOLEAN |-> TogglerToggled(b)],
      [b \in BOOLEAN |-> TogglerToggled(~b)] }

NoneOpt == [some |-> FALSE, v |-> 0]
\* None of an Option<String> or of an Option<Color>
NoneStr == [some |-> FALSE, v |-> ""]
Some(v) == [some |-> TRUE, v |-> v]
UnwrapOr(o, d) == IF o.some THEN o.v ELSE d
\* equality of two Option values
OptionEq(a, b) == a.some = b.some /\ (a.some => a.v = b.v)

Shrink == [kind |-> "Shrink", n |-> 0]
Fill == [kind |-> "Fill", n |-> 0]
Units(n) == [kind |-> "Units", n |-> n]
FillPortion(n) == [kind |-> "FillPortion", n |-> n]

----------------------------------------------------------------------------
(* Constructors *)

RadioDefaultSize == 28
RadioDefaultSpacing == 15
DEFAULT_PADDING == 5

\* Text::new
TextNew(label) ==
    [ kind |-> "Text", content |-> label, size |-> NoneOpt, color |-> NoneOpt,
      font |-> "Default", width |-> Shrink, height |-> Shrink,
      horizontal_alignment |-> "Left", vertical_alignment |-> "Top" ]

\* Radio::new(value, label, selected, f)
RadioNew(value, label, selected, f) ==
    [ kind |-> "Radio",
      is_selected |-> OptionEq(Some(value), selected),
      on_click |-> f[value],
      label |-> label,
      width |-> Shrink,
      size |-> RadioDefaultSize,
      spacing |-> RadioDefaultSpacing,
      text_size |-> NoneOpt,
      text_color |-> NoneOpt,
      font |-> "Default" ]

\* Toggler::new(is_active, label, f)
TogglerNew(is_active, label, f) ==
    [ kind |-> "Toggler",
      is_active |-> is_active,
      on_toggle |-> f,
      label |-> label,
      width |-> Fill,
      size |-> NoneOpt,
      text_size |-> NoneOpt,
      text_alignment |-> "Left",
      spacing |-> 0,
      font |-> "Default" ]

\* Tooltip::new(content, tooltip, position)
TooltipNew(content, tooltip, position) ==
    [ kind |-> "Tooltip",
      content |-> content,
      tooltip |-> TextNew(tooltip),
      position |-> position,
      style_sheet |-> [text_color |-> NoneStr],
      gap |-> 0,
      padding |-> DEFAULT_PADDING ]

\* Tooltip::gap, Tooltip::padding, Tooltip::style
TooltipGap(self, gap) == [self EXCEPT !.gap = gap]
TooltipPadding(self, padding) == [self EXCEPT !.padding = padding]
TooltipStyle(self, style_sheet) == [self EXCEPT !.style_sheet = style_sheet]

Positions == {"FollowCursor", "Top", "Bottom", "Left", "Right"}

RECURSIVE Nesting(_)
\* the number of Tooltips wrapped around the innermost content
Nesting(w) == IF w.kind = "Tooltip" THEN 1 + Nesting(w.content) ELSE 0

----------------------------------------------------------------------------
(* Event handling *)

\* what an on_event leaves: the widget, the queue, the returned Status and
\* the widgets whose on_event received the event, in order
Outcome(self, msgs, st) ==
    [self |-> self, messages |-> msgs, status |-> st, offered |-> <<self.kind>>]

\* mutant: the message is inserted at the front of the queue
RadioOnEventPushFront(self, event, bounds, cursor_position, msgs) ==
    IF event \in {MouseLeftPressed, FingerPressed}
       /\ Contains(bounds, cursor_position)
    THEN Outcome(self, <<self.on_click>> \o msgs, Captured)
    ELSE Outcome(self, msgs, Ignored)

\* mutant: a press is taken wherever the cursor is
RadioOnEventAnywhere(self, event, bounds, cursor_position, msgs) ==
    IF event \in {MouseLeftPressed, FingerPressed}
    THEN Outcome(self, Append(msgs, self.on_click), Captured)
    ELSE Outcome(self, msgs, Ignored)

\* mutant: the hit test takes the right and bottom edges as inside
RadioOnEventInclusive(self, event, bounds, cursor_position, msgs) ==
    IF event \in {MouseLeftPressed, FingerPressed}
       /\ bounds.x <= cursor_position.x
       /\ cursor_position.x <= bounds.x + bounds.width
       /\ bounds.y <= cursor_position.y
       /\ cursor_position.y <= bounds.y + bounds.height
    THEN Outcome(self, Append(msgs, self.on_click), Captured)
    ELSE Outcome(self, msgs, Ignored)

\* Radio::on_event
RadioOnEvent(self, event, bounds, cursor_position, msgs) ==
    IF event \in {MouseLeftPressed, FingerPressed}
       /\ Contains(bounds, cursor_position)
    THEN Outcome(self, Append(msgs, self.on_click), Captured)
    ELSE Outcome(self, msgs, Ignored)

\* mutant: the Toggler flips its own is_active when clicked
TogglerOnEventFlips(self, event, bounds, cursor_position, msgs) ==
    IF event = MouseLeftPressed /\ Contains(bounds, cursor_position)
    THEN Outcome([self EXCEPT !.is_active = ~self.is_active],
                 Append(msgs, self.on_toggle[~self.is_active]), Captured)
    ELSE Outcome(self, msgs, Ignored)

\* Toggler::on_event
TogglerOnEvent(self, event, bounds, cursor_position, msgs) ==
    IF event = MouseLeftPressed
    THEN IF Contains(bounds, cursor_position)
         THEN Outcome(self, Append(msgs, self.on_toggle[~self.is_active]),
                      Captured)
         ELSE Outcome(self, msgs, Ignored)
    ELSE Outcome(self, msgs, Ignored)

RECURSIVE WidgetOnEvent(_, _, _, _, _)

\* mutant: the overlay text is offered the event before the content
TooltipOnEventOverlayFirst(self, event, bounds, cursor_position, msgs) ==
    LET r == WidgetOnEvent(self.content, event, bounds, cursor_position, msgs)
    IN  [ Outcome([self EXCEPT !.content = r.self], r.messages, r.status)
            EXCEPT !.offered = <<self.kind, self.tooltip.kind>> \o r.offered ]

\* Tooltip::on_event: forwards to the content with the same layout
TooltipOnEvent(self, event, bounds, cursor_position, msgs) ==
    LET r == WidgetOnEvent(self.content, event, bounds, cursor_position, msgs)
    IN  [ Outcome([self EXCEPT !.content = r.self], r.messages, r.status)
            EXCEPT !.offered = <<self.kind>> \o r.offered ]

\* dynamic dispatch of Widget::on_event through an Element
WidgetOnEvent(w, event, bounds, cursor_position, msgs) ==
    CASE w.kind = "Radio" ->
            RadioOnEvent(w, event, bounds, cursor_position, msgs)
      [] w.kind = "Toggler" ->
            TogglerOnEvent(w, event, bounds, cursor_position, msgs)
      [] w.kind = "Tooltip" ->
            TooltipOnEvent(w, event, bounds, cursor_position, msgs)

----------------------------------------------------------------------------
(* Layout limits and nodes *)

SizeZERO == Size(0, 0)
RectangleSize(r) == Size(r.width, r.height)

\* layout::Limits::new(min, max)
LimitsNew(min, max) == [min |-> min, max |-> max]

\* layout::Limits::pad: both ends of the interval shrink by the padding of
\* the two sides of an axis, never below zero
LimitsPad(limits, padding) ==
    LET p == F32(padding) * 2
    IN  [ min |-> Size(Max(limits.min.width - p, 0),
                       Max(limits.min.height - p, 0)),
          max |-> Size(Max(limits.max.width - p, 0),
                       Max(limits.max.height - p, 0)) ]

\* layout::Limits::width(Length): a fixed length pins the interval to the
\* amount clipped into it; Shrink and Fill keep the interval
LimitsWidth(limits, length) ==
    IF length.kind = "Units"
    THEN LET w == Max(Min(F32(length.n), limits.max.width), limits.min.width)
         IN  [ min |-> Size(w, limits.min.height),
               max |-> Size(w, limits.max.height) ]
    ELSE limits

\* layout::Limits::height(Length)
LimitsHeight(limits, length) ==
    IF length.kind = "Units"
    THEN LET h == Max(Min(F32(length.n), limits.max.height), limits.min.height)
         IN  [ min |-> Size(limits.min.width, h),
               max |-> Size(limits.max.width, h) ]
    ELSE limits

\* layout::Limits::max
LimitsMax(limits) == limits.max

\* layout::Limits::resolve: the intrinsic size clipped into the interval
LimitsResolve(limits, intrinsic) ==
    Size(Max(Min(intrinsic.width, limits.max.width), limits.min.width),
         Max(Min(intrinsic.height, limits.max.height), limits.min.height))

\* layout::Node::new(size)
NodeNew(size) ==
    [bounds |-> Rectangle(0, 0, size.width, size.height), children |-> <<>>]

\* Layout::with_offset(offset, node).bounds()
LayoutWithOffset(offset, node) ==
    Rectangle(node.bounds.x + offset.x, node.bounds.y + offset.y,
              node.bounds.width, node.bounds.height)

\* a renderer: its default text size and what Renderer::measure answers for
\* a content, a size and a font
RendererNew(default_size, measure) ==
    [default_size |-> default_size, measure |-> measure]

\* renderer.measure(contents, size, font, bounds)
RendererMeasure(rdr, contents, size, font, bounds) ==
    rdr.measure[<<contents, size, font>>]

\* Text::layout
TextLayout(self, rdr, limits) ==
    LET l == LimitsHeight(LimitsWidth(limits, self.width), self.height)
        size == UnwrapOr(self.size, rdr.default_size)
        bounds == LimitsMax(l)
        measured == RendererMeasure(rdr, self.content, size, self.font, bounds)
        resolved == LimitsResolve(l, Size(measured.width, measured.height))
    IN  NodeNew(resolved)

----------------------------------------------------------------------------
(* Layout of the widgets *)

\* Row::new
RowNew ==
    [ kind |-> "Row", spacing |-> 0, width |-> Shrink, height |-> Shrink,
      align_items |-> "Start", children |-> <<>> ]

\* Row::push
RowPush(self, child) == [self EXCEPT !.children = Append(@, child)]

\* Rule::horizontal, Rule::vertical
RuleHorizontal(spacing) ==
    [ kind |-> "Rule", width |-> Fill, height |-> Units(spacing),
      is_horizontal |-> TRUE ]
RuleVertical(spacing) ==
    [ kind |-> "Rule", width |-> Units(spacing), height |-> Fill,
      is_horizontal |-> FALSE ]

\* Option::<StateInner>::None
NoInner ==
    [some |-> FALSE, v |-> [id |-> 0, uniform_buffer |-> 0, writes |-> 0]]

\* State::new
StateNew == [inner |-> NoInner, size |-> 0, rotation |-> 0]

\* queue.write_buffer(&inner.uniform_buffer, 0, [TriangleUniforms { rotation }])
WriteBuffer(inner, rotation) ==
    [inner EXCEPT !.v.uniform_buffer = rotation, !.v.writes = @ + 1]

\* StateInner::create(device, queue, uniforms): the id tells one StateInner
\* from the next one the device makes, `writes` counts the write_buffer
\* calls the queue got for the uniform buffer
StateInnerCreate(id, uniforms) ==
    [id |-> id, uniform_buffer |-> uniforms, writes |-> 0]

\* the rotation is kept only when there is a StateInner to write it to
TriangleNewLosesEarlyRotation(size, rotation, state) ==
    IF rotation # state.rotation /\ state.inner.some
    THEN [state EXCEPT !.size = size,
                       !.rotation = rotation,
                       !.inner = WriteBuffer(state.inner, rotation)]
    ELSE [state EXCEPT !.size = size]

\* Triangle::new(size, rotation, state): what it leaves in the State
TriangleNew(size, rotation, state) ==
    IF rotation # state.rotation
    THEN [state EXCEPT !.size = size,
                       !.rotation = rotation,
                       !.inner = IF state.inner.some
                                 THEN WriteBuffer(state.inner, rotation)
                                 ELSE state.inner]
    ELSE [state EXCEPT !.size = size]

\* the Triangle holds the State
TriangleOf(state) == [kind |-> "Triangle", state |-> state]

\* creates a StateInner in every draw
TriangleDrawRebuilding(state, created) ==
    [state EXCEPT !.inner = Some(StateInnerCreate(created + 1, state.rotation))]

\* Triangle::draw: what borrow.get_or_insert_with leaves in the State, when
\* the device has created `created` StateInners so far
TriangleDraw(state, created) ==
    IF state.inner.some THEN state
    ELSE [state EXCEPT
             !.inner = Some(StateInnerCreate(created + 1, state.rotation))]

\* Toggler::size
TogglerSize(self, size) == [self EXCEPT !.size = Some(size)]

\* Length::fill_factor
FillFactor(length) ==
    CASE length.kind = "Fill" -> 1
      [] length.kind = "FillPortion" -> length.n
      [] OTHER -> 0

RECURSIVE WidgetWidth(_)
\* Widget::width
WidgetWidth(w) ==
    CASE w.kind = "Tooltip" -> WidgetWidth(w.content)
      [] w.kind = "Triangle" -> Shrink
      [] OTHER -> w.width

RECURSIVE WidgetHeight(_)
\* Widget::height
WidgetHeight(w) ==
    CASE w.kind = "Tooltip" -> WidgetHeight(w.content)
      [] w.kind \in {"Radio", "Toggler", "Triangle"} -> Shrink
      [] OTHER -> w.height

\* layout::Node::with_children(size, children)
NodeWithChildren(size, children) ==
    [ bounds |-> Rectangle(0, 0, size.width, size.height),
      children |-> children ]

\* layout::Node::move_to
NodeMoveTo(node, position) ==
    [node EXCEPT !.bounds.x = position.x, !.bounds.y = position.y]

\* layout::Node::align along the cross axis of a Row of height `cross`
NodeAlign(node, align_items, cross) ==
    CASE align_items = "Center" ->
            [node EXCEPT !.bounds.y = @ + (cross - node.bounds.height) \div 2]
      [] align_items = "End" ->
            [node EXCEPT !.bounds.y = @ + (cross - node.bounds.height)]
      [] OTHER -> node

RECURSIVE WidgetLayout(_, _, _)
RECURSIVE FlexMeasure(_, _, _, _)
RECURSIVE FlexPlace(_, _, _, _, _)

\* first pass of a Row: the children that do not fill are laid out in order,
\* each within the space the earlier ones left; `nodes` holds their Nodes
\* (an empty Node in the place of a fill child)
FlexMeasure(items, rdr, available, max_cross) ==
    IF items = <<>> THEN [nodes |-> <<>>, available |-> available]
    ELSE IF FillFactor(WidgetWidth(Head(items))) = 0
    THEN LET node == WidgetLayout(Head(items), rdr,
                         LimitsNew(SizeZERO,
                                   Size(Max(available, 0), max_cross)))
             rest == FlexMeasure(Tail(items), rdr,
                                 available - node.bounds.width, max_cross)
         IN  [nodes |-> <<node>> \o rest.nodes, available |-> rest.available]
    ELSE LET rest == FlexMeasure(Tail(items), rdr, available, max_cross)
         IN  [nodes |-> <<NodeNew(SizeZERO)>> \o rest.nodes,
              available |-> rest.available]

\* the sum of the fill factors of the children
FillSum(items) ==
    LET RECURSIVE Sum(_)
        Sum(i) == IF i = 0 THEN 0
                  ELSE FillFactor(WidgetWidth(items[i])) + Sum(i - 1)
    IN  Sum(Len(items))

\* the share of the remaining space of a fill child: remaining * factor / sum
FillShare(remaining, fill_factor, fill_sum) ==
    (remaining * fill_factor) \div fill_sum

\* second pass of a Row: every fill child gets its share of the remaining
\* space, as its minimum and its maximum width
FlexFill(items, nodes, rdr, remaining, min_cross, max_cross) ==
    [ i \in 1..Len(items) |->
        LET fill_factor == FillFactor(WidgetWidth(items[i]))
        IN  IF fill_factor = 0 THEN nodes[i]
            ELSE LET main == FillShare(remaining, fill_factor, FillSum(items))
                 IN  WidgetLayout(items[i], rdr,
                                  LimitsNew(Size(main, min_cross),
                                            Size(main, max_cross))) ]

\* third pass of a Row: the children are placed one after the other from
\* `main` on, `spacing` apart, and aligned along the cross axis
FlexPlace(nodes, main, spacing, align_items, cross) ==
    IF nodes = <<>> THEN [nodes |-> <<>>, main |-> main]
    ELSE LET node == NodeAlign(NodeMoveTo(Head(nodes), Point(main, 0)),
                               align_items, cross)
             gap == IF Len(nodes) > 1 THEN spacing ELSE 0
             rest == FlexPlace(Tail(nodes), main + node.bounds.width + gap,
                               spacing, align_items, cross)
         IN  [nodes |-> <<node>> \o rest.nodes, main |-> rest.main]

\* the largest height among the nodes, at least `least`
MaxCross(nodes, least) ==
    LET RECURSIVE Fold(_)
        Fold(i) == IF i = 0 THEN least
                   ELSE Max(nodes[i].bounds.height, Fold(i - 1))
    IN  Fold(Len(nodes))

\* Row::layout
RowLayout(self, rdr, limits) ==
    LET l == LimitsHeight(LimitsWidth(limits, self.width), self.height)
        items == self.children
        spacing == F32(self.spacing)
        total_spacing == spacing * Max(Len(items) - 1, 0)
        max_cross == l.max.height
        measured == FlexMeasure(items, rdr, l.max.width - total_spacing,
                                max_cross)
        remaining == Max(measured.available, 0)
        nodes == FlexFill(items, measured.nodes, rdr, remaining,
                          l.min.height, max_cross)
        cross == MaxCross(nodes, l.min.height)
        placed == FlexPlace(nodes, 0, spacing, self.align_items, cross)
        size == LimitsResolve(l, Size(placed.main, cross))
    IN  NodeWithChildren(size, placed.nodes)

\* Radio::layout
RadioLayout(self, rdr, limits) ==
    RowLayout(
        RowPush(RowPush([RowNew EXCEPT !.width = self.width,
                                       !.spacing = self.spacing,
                                       !.align_items = "Center"],
                        [RowNew EXCEPT !.width = Units(self.size),
                                       !.height = Units(self.size)]),
                [TextNew(self.label) EXCEPT
                    !.width = self.width,
                    !.size = Some(UnwrapOr(self.text_size,
                                           rdr.default_size))]),
        rdr, limits)

\* the label of a Toggler keeps the width of Text::new
TogglerLayoutShrinkLabel(self, rdr, limits) ==
    LET row == [RowNew EXCEPT !.width = self.width,
                              !.spacing = self.spacing,
                              !.align_items = "Center"]
        labelled ==
            IF self.label.some
            THEN RowPush(row,
                         [TextNew(self.label.v) EXCEPT
                             !.horizontal_alignment = self.text_alignment,
                             !.font = self.font,
                             !.size = Some(UnwrapOr(self.text_size,
                                                    rdr.default_size))])
            ELSE row
    IN  RowLayout(RowPush(labelled,
                          [RowNew EXCEPT !.width = Units(2 * self.size.v),
                                         !.height = Units(self.size.v)]),
                  rdr, limits)

\* the label is never pushed
TogglerLayoutIndicatorOnly(self, rdr, limits) ==
    LET row == [RowNew EXCEPT !.width = self.width,
                              !.spacing = self.spacing,
                              !.align_items = "Center"]
    IN  RowLayout(RowPush(row,
                          [RowNew EXCEPT !.width = Units(2 * self.size.v),
                                         !.height = Units(self.size.v)]),
                  rdr, limits)

\* Toggler::layout; self.size holds a number
TogglerLayout(self, rdr, limits) ==
    LET row == [RowNew EXCEPT !.width = self.width,
                              !.spacing = self.spacing,
                              !.align_items = "Center"]
        labelled ==
            IF self.label.some
            THEN RowPush(row,
                         [TextNew(self.label.v) EXCEPT
                             !.horizontal_alignment = self.text_alignment,
                             !.font = self.font,
                             !.width = self.width,
                             !.size = Some(UnwrapOr(self.text_size,
                                                    rdr.default_size))])
            ELSE row
    IN  RowLayout(RowPush(labelled,
                          [RowNew EXCEPT !.width = Units(2 * self.size.v),
                                         !.height = Units(self.size.v)]),
                  rdr, limits)

\* the content is laid out within the Limits less the padding of the overlay
TooltipLayoutPadded(self, rdr, limits) ==
    WidgetLayout(self.content, rdr, LimitsPad(limits, self.padding))

\* Tooltip::layout
TooltipLayout(self, rdr, limits) == WidgetLayout(self.content, rdr, limits)

\* resolves the largest size of the Limits
RuleLayoutFilling(self, rdr, limits) ==
    LET l == LimitsHeight(LimitsWidth(limits, self.width), self.height)
    IN  NodeNew(LimitsResolve(l, LimitsMax(l)))

\* Rule::layout
RuleLayout(self, rdr, limits) ==
    LET l == LimitsHeight(LimitsWidth(limits, self.width), self.height)
    IN  NodeNew(LimitsResolve(l, SizeZERO))

\* Triangle::layout
TriangleLayout(self, rdr, limits) ==
    NodeNew(Size(self.state.size * 2, self.state.size * 2))

\* Widget::layout
WidgetLayout(w, rdr, limits) ==
    CASE w.kind = "Text" -> TextLayout(w, rdr, limits)
      [] w.kind = "Row" -> RowLayout(w, rdr, limits)
      [] w.kind = "Radio" -> RadioLayout(w, rdr, limits)
      [] w.kind = "Toggler" -> TogglerLayout(w, rdr, limits)
      [] w.kind = "Tooltip" -> TooltipLayout(w, rdr, limits)
      [] w.kind = "Rule" -> RuleLayout(w, rdr, limits)
      [] w.kind = "Triangle" -> TriangleLayout(w, rdr, limits)

\* what #[derive(Hash)] feeds for an Option: the discriminant, then the value
HashOption(o) == IF o.some THEN <<"Some", o.v>> ELSE <<"None">>

\* what #[derive(Hash)] feeds for a Length
HashLength(length) ==
    IF length.kind \in {"Units", "FillPortion"}
    THEN <<length.kind, length.n>>
    ELSE <<length.kind>>

\* feeds also the color
TextHashLayoutWithColor(self, state) ==
    state \o <<"Text::Marker", self.content>> \o HashOption(self.size)
          \o HashLength(self.width) \o HashLength(self.height)
          \o HashOption(self.color)

\* Text::hash_layout: the values fed to the Hasher, in order
TextHashLayout(self, state) ==
    state \o <<"Text::Marker", self.content>> \o HashOption(self.size)
          \o HashLength(self.width) \o HashLength(self.height)

\* Radio::hash_layout
RadioHashLayout(self, state) == state \o <<"Radio::Marker", self.label>>

\* Toggler::hash_layout
TogglerHashLayout(self, state) ==
    state \o <<"Toggler::Marker">> \o HashOption(self.label)

\* Rule::hash_layout
RuleHashLayout(self, state) ==
    state \o <<"Rule::Marker">> \o HashLength(self.width)
          \o HashLength(self.height)

\* Triangle::hash_layout
TriangleHashLayout(self, state) == state \o <<self.state.size>>

RECURSIVE WidgetHashLayout(_, _)

\* Tooltip::hash_layout
TooltipHashLayout(self, state) ==
    WidgetHashLayout(self.content, state \o <<"Tooltip::Marker">>)

\* Widget::hash_layout
WidgetHashLayout(w, state) ==
    CASE w.kind = "Text" -> TextHashLayout(w, state)
      [] w.kind = "Radio" -> RadioHashLayout(w, state)
      [] w.kind = "Toggler" -> TogglerHashLayout(w, state)
      [] w.kind = "Tooltip" -> TooltipHashLayout(w, state)
      [] w.kind = "Rule" -> RuleHashLayout(w, state)
      [] w.kind = "Triangle" -> TriangleHashLayout(w, state)

NoNode == [done |-> FALSE]
NoHasher == [done |-> FALSE]

InitLayoutVars ==
    /\ offer = LimitsNew(SizeZERO, SizeZERO)
    /\ laid = NoNode
    /\ hasher = NoHasher

\* no Triangle yet, and a device that has created nothing
NoDevice ==
    [ created |-> 0, drawn |-> 0, last |-> "", creator |-> "",
      size |-> 0, rotation |-> 0 ]

InitTriangleVars ==
    /\ triangle_state = StateNew
    /\ device = NoDevice

----------------------------------------------------------------------------
(* The custom-rendering pipeline (iced_wgpu::direct_wgpu) *)

\* DirectWgpuJob::new(bundle, bounds)
DirectWgpuJobNew(bundle, bounds) == [bundle |-> bundle, bounds |-> bounds]

\* a render pass on which set_viewport was not called
NoViewport == [some |-> FALSE, v |-> Rectangle(0, 0, 0, 0)]

\* encoder.begin_render_pass(..): a new pass on the target, LoadOp::Load
BeginRenderPass(target) == [target |-> target, viewport |-> NoViewport]

\* the viewport of the pass is left as begin_render_pass made it
RenderPassKeepViewport(render_pass, bounds) == render_pass

\* render_pass.set_viewport(bounds.x, bounds.y, bounds.width, bounds.height,
\* 0.0, 1.0)
RenderPassSetViewport(render_pass, bounds) ==
    [render_pass EXCEPT !.viewport = Some(bounds)]

\* render_pass.execute_bundles(once(bundle)): what the GPU is told to run,
\* and under which viewport
RenderPassExecuteBundles(render_pass, bundle) ==
    [bundle |-> bundle, viewport |-> render_pass.viewport]

\* Pipeline::draw has not been called
NoPipeline ==
    [ pc |-> "idle", jobs |-> <<>>, next |-> 1,
      render_pass |-> BeginRenderPass(""), passes |-> 0, executed |-> <<>> ]

----------------------------------------------------------------------------
(* The Example application (direct_wgpu) *)

\* Example::new; the angle is kept in hundredths, so that speed / 100.0 is
\* the integer speed
ExampleNew == [size |-> F32(50), speed |-> 5, angle |-> 0]

\* the Messages of the Example
RadiusChanged(radius) == [tag |-> "RadiusChanged", v |-> radius]
SpeedChanged(speed) == [tag |-> "SpeedChanged", v |-> speed]
MessageTimeTick == [tag |-> TimeTick, v |-> 0]

\* Example::update
ExampleUpdate(self, message) ==
    CASE message.tag = "RadiusChanged" -> [self EXCEPT !.size = message.v]
      [] message.tag = "SpeedChanged" -> [self EXCEPT !.speed = message.v]
      [] message.tag = TimeTick -> [self EXCEPT !.angle = @ + self.speed]

\* the Element does not borrow the Example
ExampleViewUnborrowed(self, state) ==
    [ state |-> TriangleNew(self.size, self.angle, state),
      borrowed |-> FALSE ]

\* Example::view(&mut self) -> Element<'_, ..>: Triangle::new runs on the
\* State of the Example, and the Element returned borrows the Example
\* mutably for as long as it lives
ExampleView(self, state) ==
    [ state |-> TriangleNew(self.size, self.angle, state),
      borrowed |-> TRUE ]

\* no user interface, no pass, no event
NoLoop ==
    [ tree |-> FALSE, borrowed |-> FALSE, layout |-> "idle",
      dispatch |-> "idle", draw |-> "idle", pending |-> <<>>,
      taken |-> <<>>, arrived |-> FALSE, frames |-> 0, last |-> "" ]

InitRunVars ==
    /\ pipeline = NoPipeline
    /\ app = ExampleNew
    /\ loop = NoLoop

----------------------------------------------------------------------------
(* The draw pass *)

RendererCall(op, bounds, color, subject) ==
    [op |-> op, bounds |-> bounds, color |-> color, subject |-> subject]

Defaults(color) == [text |-> [color |-> color]]

Pass(cs, os) == [calls |-> cs, overlays |-> os]

\* Text::draw
TextDraw(self, defaults, bounds) ==
    <<RendererCall("text", bounds, defaults.text.color, self.content)>>

\* the text starts at the centre of the widget instead of being centred on it
TooltipOffsetFromCentre(position, bounds, text_bounds, cursor_position, gap, padding) ==
    LET x_center == bounds.x + bounds.width \div 2
        y_center == bounds.y + bounds.height \div 2
    IN  CASE position = "Top" ->
                Point(x_center, bounds.y - text_bounds.height - gap - padding)
          [] position = "Bottom" ->
                Point(x_center, bounds.y + bounds.height + gap + padding)
          [] position = "Left" ->
                Point(bounds.x - text_bounds.width - gap - padding, y_center)
          [] position = "Right" ->
                Point(bounds.x + bounds.width + gap + padding, y_center)
          [] position = "FollowCursor" ->
                Point(cursor_position.x,
                      cursor_position.y - text_bounds.height)

\* the offset of the overlay text for each Position (Tooltip::draw)
TooltipOffset(position, bounds, text_bounds, cursor_position, gap, padding) ==
    LET x_center == bounds.x + (bounds.width - text_bounds.width) \div 2
        y_center == bounds.y + (bounds.height - text_bounds.height) \div 2
    IN  CASE position = "Top" ->
                Point(x_center, bounds.y - text_bounds.height - gap - padding)
          [] position = "Bottom" ->
                Point(x_center, bounds.y + bounds.height + gap + padding)
          [] position = "Left" ->
                Point(bounds.x - text_bounds.width - gap - padding, y_center)
          [] position = "Right" ->
                Point(bounds.x + bounds.width + gap + padding, y_center)
          [] position = "FollowCursor" ->
                Point(cursor_position.x,
                      cursor_position.y - text_bounds.height)

\* the overlay bounds before clamping (Tooltip::draw)
TooltipUnclamped(offset, text_bounds, padding) ==
    Rectangle(offset.x - padding, offset.y - padding,
              text_bounds.width + padding * 2,
              text_bounds.height + padding * 2)

\* mutant: an overflow of the far edge is left as it is
TooltipClampNearOnly(tooltip_bounds, viewport) ==
    Rectangle(Max(tooltip_bounds.x, viewport.x),
              Max(tooltip_bounds.y, viewport.y),
              tooltip_bounds.width, tooltip_bounds.height)

\* mutant: an overlay above or left of the viewport is left as it is
TooltipClampFarOnly(tooltip_bounds, viewport) ==
    Rectangle(Min(tooltip_bounds.x,
                  viewport.x + viewport.width - tooltip_bounds.width),
              Min(tooltip_bounds.y,
                  viewport.y + viewport.height - tooltip_bounds.height),
              tooltip_bounds.width, tooltip_bounds.height)

\* mutant: an overlay that overflows is cut to the viewport
TooltipClampResizing(tooltip_bounds, viewport) ==
    LET x == Max(tooltip_bounds.x, viewport.x)
        y == Max(tooltip_bounds.y, viewport.y)
    IN  Rectangle(x, y,
                  Min(tooltip_bounds.width, viewport.x + viewport.width - x),
                  Min(tooltip_bounds.height,
                      viewport.y + viewport.height - y))

\* mutant: an overlay that overflows the far edge is moved to the near edge
TooltipClampToOrigin(tooltip_bounds, viewport) ==
    LET x == IF tooltip_bounds.x < viewport.x
                \/ viewport.x + viewport.width
                     < tooltip_bounds.x + tooltip_bounds.width
             THEN viewport.x ELSE tooltip_bounds.x
        y == IF tooltip_bounds.y < viewport.y
                \/ viewport.y + viewport.height
                     < tooltip_bounds.y + tooltip_bounds.height
             THEN viewport.y ELSE tooltip_bounds.y
    IN  Rectangle(x, y, tooltip_bounds.width, tooltip_bounds.height)

\* the clamp of the overlay bounds into the viewport (Tooltip::draw)
TooltipClamp(tooltip_bounds, viewport) ==
    LET x == IF tooltip_bounds.x < viewport.x
             THEN viewport.x
             ELSE IF viewport.x + viewport.width
                     < tooltip_bounds.x + tooltip_bounds.width
                  THEN viewport.x + viewport.width - tooltip_bounds.width
                  ELSE tooltip_bounds.x
        y == IF tooltip_bounds.y < viewport.y
             THEN viewport.y
             ELSE IF viewport.y + viewport.height
                     < tooltip_bounds.y + tooltip_bounds.height
                  THEN viewport.y + viewport.height - tooltip_bounds.height
                  ELSE tooltip_bounds.y
    IN  Rectangle(x, y, tooltip_bounds.width, tooltip_bounds.height)

\* the overlay of a Tooltip whose bounds hold the cursor: the layout of its
\* text and its bounds before and after the clamp (Tooltip::draw)
TooltipOverlay(self, measure, bounds, cursor_position, viewport) ==
    LET gap == F32(self.gap)
        text_layout ==
            TextLayout(self.tooltip, measure,
                       LimitsPad(LimitsNew(SizeZERO, RectangleSize(viewport)),
                                 self.padding))
        padding == F32(self.padding)
        text_bounds == text_layout.bounds
        offset == TooltipOffset(self.position, bounds, text_bounds,
                                cursor_position, gap, padding)
        unclamped == TooltipUnclamped(offset, text_bounds, padding)
    IN  [ position |-> self.position, gap |-> gap, padding |-> padding,
          bounds |-> bounds, cursor_position |-> cursor_position,
          viewport |-> viewport, text_layout |-> text_layout,
          text_bounds |-> text_bounds, unclamped |-> unclamped,
          tooltip_bounds |-> TooltipClamp(unclamped, viewport) ]

\* the renderer calls that draw the overlay o of a Tooltip (Tooltip::draw)
OverlayCalls(self, o, defaults) ==
    LET style == self.style_sheet
        overlay_defaults ==
            Defaults(UnwrapOr(style.text_color, defaults.text.color))
    IN  <<RendererCall("begin_layer", o.viewport, "", "")>>
          \o TextDraw(self.tooltip, overlay_defaults,
                      LayoutWithOffset(Point(o.tooltip_bounds.x + o.padding,
                                             o.tooltip_bounds.y + o.padding),
                                       o.text_layout))
          \o <<RendererCall("end_layer", o.viewport, "", "")>>

RECURSIVE WidgetDraw(_, _, _, _, _, _)

\* mutant: the layer is closed after the base content is drawn
TooltipDrawContentInLayer(self, measure, defaults, bounds, cursor_position, viewport) ==
    LET base == WidgetDraw(self.content, measure, defaults, bounds,
                           cursor_position, viewport)
    IN  IF Contains(bounds, cursor_position)
        THEN LET o == TooltipOverlay(self, measure, bounds, cursor_position,
                                     viewport)
                 cs == OverlayCalls(self, o, defaults)
             IN  Pass(SubSeq(cs, 1, 2) \o base.calls \o SubSeq(cs, 3, 3),
                      <<o>> \o base.overlays)
        ELSE base

\* the defaults of the overlay are handed on to the content
TooltipDrawStyledContent(self, measure, defaults, bounds, cursor_position, viewport) ==
    IF Contains(bounds, cursor_position)
    THEN LET o == TooltipOverlay(self, measure, bounds, cursor_position,
                                 viewport)
             styled == Defaults(UnwrapOr(self.style_sheet.text_color,
                                         defaults.text.color))
             base == WidgetDraw(self.content, measure, styled, bounds,
                                cursor_position, viewport)
         IN  Pass(OverlayCalls(self, o, defaults) \o base.calls,
                  <<o>> \o base.overlays)
    ELSE WidgetDraw(self.content, measure, defaults, bounds, cursor_position,
                    viewport)

\* Tooltip::draw
TooltipDraw(self, measure, defaults, bounds, cursor_position, viewport) ==
    LET base == WidgetDraw(self.content, measure, defaults, bounds,
                           cursor_position, viewport)
    IN  IF Contains(bounds, cursor_position)
        THEN LET o == TooltipOverlay(self, measure, bounds, cursor_position,
                                     viewport)
             IN  Pass(OverlayCalls(self, o, defaults) \o base.calls,
                      <<o>> \o base.overlays)
        ELSE base

\* dynamic dispatch of Widget::draw through an Element
WidgetDraw(w, measure, defaults, bounds, cursor_position, viewport) ==
    IF w.kind = "Tooltip"
    THEN TooltipDraw(w, measure, defaults, bounds, cursor_position, viewport)
    ELSE Pass(<<RendererCall("content", bounds, defaults.text.color, w.kind)>>,
              <<>>)

RECURSIVE LayerDepth(_, _)
\* the renderer's layer depth after the calls cs, starting from depth d
LayerDepth(d, cs) ==
    IF cs = <<>> THEN d
    ELSE LayerDepth(CASE Head(cs).op = "begin_layer" -> d + 1
                      [] Head(cs).op = "end_layer" -> d - 1
                      [] OTHER -> d,
                    Tail(cs))

----------------------------------------------------------------------------
(* The inputs explored *)

Cursors == { Point(F32(x), F32(y)) : x, y \in 0..MaxCoord }

Layouts ==
    { Rectangle(F32(o), F32(o), F32(w), F32(h)) :
        o \in 0..MaxOrigin, w \in 0..MaxSize, h \in 0..MaxSize }

\* the layout bounds that can hold a cursor
DrawLayouts == { b \in Layouts : b.width > 0 /\ b.height > 0 }

ViewSizes == { n \in 1..MaxView : n % 2 = 1 }

Viewports ==
    { Rectangle(F32(o), F32(o), F32(w), F32(h)) :
        o \in 0..MaxOrigin, w \in ViewSizes, h \in ViewSizes }

TipText == "tip"

\* the renderer that measures the overlay text as `size`
TipRenderer(size) ==
    RendererNew(1, [k \in {<<TipText, 1, "Default">>} |-> size])

\* the renderers: what renderer.measure answers for the overlay text
Renderers ==
    { TipRenderer(Size(F32(w), F32(h))) : w \in 0..MaxText, h \in 1..MaxText }

BLACK == "BLACK"
WHITE == "WHITE"

RadioFn == [v \in Choices |-> RadioSelected(v)]

Radios ==
    { RadioNew(v, "This is " \o v, Some("A"), RadioFn) : v \in Choices }

Togglers ==
    { TogglerNew(a, Some("Toggle me!"), f) : a \in BOOLEAN, f \in TogglerFns }

RECURSIVE Wrapped(_, _)
\* the widget w inside n default Tooltips
Wrapped(w, n) ==
    IF n = 0 THEN w ELSE TooltipNew(Wrapped(w, n - 1), TipText, "Top")

\* the user interfaces that receive events
EventRoots == { Wrapped(w, n) : w \in Radios \cup Togglers, n \in 0..MaxNest }

\* the Tooltips whose overlay placement is explored
DrawRoots ==
    { TooltipPadding(TooltipGap(TooltipNew(w, TipText, p), g), d) :
        w \in { RadioNew("A", "This is A", NoneOpt, RadioFn) },
        p \in Positions, g \in 0..MaxGap, d \in 0..MaxPadding }

NoCall == [widget |-> "", event |-> "", cursor_position |-> Point(0, 0),
           before |-> <<>>, offered |-> <<>>]
NoFrame == [drawn |-> FALSE, cursor_position |-> Point(0, 0),
            defaults |-> Defaults(BLACK), before |-> 0]

----------------------------------------------------------------------------
(* Primitives (iced_graphics) *)

Erased == "()"      \* the backend of Primitive<()>
Typed == "B"        \* a backend B: Backend

PrimitiveNone(b) == [variant |-> "None", backend |-> b]
PrimitiveGroup(b, primitives) ==
    [variant |-> "Group", backend |-> b, primitives |-> primitives]
PrimitiveText(b, content, bounds, color, size, font, horizontal_alignment, vertical_alignment) ==
    [variant |-> "Text", backend |-> b, content |-> content,
     bounds |-> bounds, color |-> color, size |-> size, font |-> font,
     horizontal_alignment |-> horizontal_alignment,
     vertical_alignment |-> vertical_alignment]
PrimitiveQuad(b, bounds, background, border_radius, border_width, border_color) ==
    [variant |-> "Quad", backend |-> b, bounds |-> bounds,
     background |-> background, border_radius |-> border_radius,
     border_width |-> border_width, border_color |-> border_color]
PrimitiveImage(b, handle, bounds) ==
    [variant |-> "Image", backend |-> b, handle |-> handle, bounds |-> bounds]
PrimitiveSvg(b, handle, bounds) ==
    [variant |-> "Svg", backend |-> b, handle |-> handle, bounds |-> bounds]
PrimitiveClip(b, bounds, offset, content) ==
    [variant |-> "Clip", backend |-> b, bounds |-> bounds, offset |-> offset,
     content |-> content]
PrimitiveTranslate(b, translation, content) ==
    [variant |-> "Translate", backend |-> b, translation |-> translation,
     content |-> content]
PrimitiveMesh2D(b, buffers, size) ==
    [variant |-> "Mesh2D", backend |-> b, buffers |-> buffers, size |-> size]
PrimitiveCached(b, cache) ==
    [variant |-> "Cached", backend |-> b, cache |-> cache]
\* Custom(B::CustomRenderPrimitive)
PrimitiveCustom(b, custom) ==
    [variant |-> "Custom", backend |-> b, custom |-> custom]

\* the outcome of a call: a value, or a panic that returns nothing
Returned(v) == [panic |-> FALSE, value |-> v]
Panicked == [panic |-> TRUE]

RECURSIVE PrimitiveFrom(_)
RECURSIVE CollectFrom(_)

\* collects the children in reverse order
CollectFromReversed(primitives) ==
    IF primitives = <<>> THEN Returned(<<>>)
    ELSE LET first == PrimitiveFrom(Head(primitives))
             rest == CollectFrom(Tail(primitives))
         IN  IF first.panic \/ rest.panic THEN Panicked
             ELSE Returned(rest.value \o <<first.value>>)

\* skips the children whose conversion fails
CollectFromLenient(primitives) ==
    IF primitives = <<>> THEN Returned(<<>>)
    ELSE LET first == PrimitiveFrom(Head(primitives))
             rest == CollectFrom(Tail(primitives))
         IN  IF first.panic THEN rest
             ELSE IF rest.panic THEN Panicked
             ELSE Returned(<<first.value>> \o rest.value)

\* primitives.into_iter().map(From::from).collect()
CollectFrom(primitives) ==
    IF primitives = <<>> THEN Returned(<<>>)
    ELSE LET first == PrimitiveFrom(Head(primitives))
             rest == CollectFrom(Tail(primitives))
         IN  IF first.panic \/ rest.panic THEN Panicked
             ELSE Returned(<<first.value>> \o rest.value)

\* impl<B: Backend> From<Primitive<()>> for Primitive<B>
PrimitiveFrom(from) ==
    CASE from.variant = "None" -> Returned(PrimitiveNone(Typed))
      [] from.variant = "Group" ->
            LET primitives == CollectFrom(from.primitives)
            IN  IF primitives.panic THEN Panicked
                ELSE Returned(PrimitiveGroup(Typed, primitives.value))
      [] from.variant = "Text" ->
            Returned(PrimitiveText(Typed, from.content, from.bounds,
                                   from.color, from.size, from.font,
                                   from.horizontal_alignment,
                                   from.vertical_alignment))
      [] from.variant = "Quad" ->
            Returned(PrimitiveQuad(Typed, from.bounds, from.background,
                                   from.border_radius, from.border_width,
                                   from.border_color))
      [] from.variant = "Image" ->
            Returned(PrimitiveImage(Typed, from.handle, from.bounds))
      [] from.variant = "Svg" ->
            Returned(PrimitiveSvg(Typed, from.handle, from.bounds))
      [] from.variant = "Clip" ->
            LET content == PrimitiveFrom(from.content)
            IN  IF content.panic THEN Panicked
                ELSE Returned(PrimitiveClip(Typed, from.bounds, from.offset,
                                            content.value))
      [] from.variant = "Translate" ->
            LET content == PrimitiveFrom(from.content)
            IN  IF content.panic THEN Panicked
                ELSE Returned(PrimitiveTranslate(Typed, from.translation,
                                                 content.value))
      [] from.variant = "Mesh2D" ->
            Returned(PrimitiveMesh2D(Typed, from.buffers, from.size))
      [] from.variant = "Cached" ->
            LET cache == PrimitiveFrom(from.cache)
            IN  IF cache.panic THEN Panicked
                ELSE Returned(PrimitiveCached(Typed, cache.value))
      [] from.variant = "Custom" -> Panicked

\* the primitives without a child, one of every variant
PrimitiveLeaves(b) ==
    { PrimitiveNone(b),
      PrimitiveText(b, "text", Rectangle(0, 0, F32(1), F32(1)), BLACK,
                    F32(1), "Default", "Left", "Top"),
      PrimitiveQuad(b, Rectangle(0, 0, F32(1), F32(1)), BLACK, 0, F32(1),
                    BLACK),
      PrimitiveImage(b, "image", Rectangle(0, 0, F32(1), F32(1))),
      PrimitiveSvg(b, "svg", Rectangle(F32(1), 0, F32(1), F32(1))),
      PrimitiveMesh2D(b, "buffers", Size(F32(1), F32(1))),
      PrimitiveCustom(b, b) }

\* the children of a Group beside its one nested child
GroupLeaves(b) ==
    { p \in PrimitiveLeaves(b) : p.variant \in {"None", "Text", "Custom"} }

\* the child lists of a Group: up to MaxChildren leaves, the first of them
\* possibly replaced by a primitive of `below`
Siblings(b, below) ==
    {<<>>}
    \cup UNION { { s : s \in [1..n -> GroupLeaves(b)] }
                 \cup { [s EXCEPT ![1] = t] :
                          s \in [1..n -> GroupLeaves(b)], t \in below }
               : n \in 1..MaxChildren }

RECURSIVE Primitives(_, _)
\* the primitive trees of backend b nested at most d deep
Primitives(b, d) ==
    IF d = 0 THEN PrimitiveLeaves(b)
    ELSE LET below == Primitives(b, d - 1)
         IN  below
             \cup { PrimitiveGroup(b, s) : s \in Siblings(b, below) }
             \cup { PrimitiveClip(b, Rectangle(0, 0, F32(1), F32(1)),
                                  Point(0, F32(1)), t) : t \in below }
             \cup { PrimitiveTranslate(b, Point(F32(1), 0), t) : t \in below }
             \cup { PrimitiveCached(b, t) : t \in below }

NoConversion == [done |-> FALSE]

InitGfxVars ==
    /\ prim = PrimitiveNone(Erased)
    /\ converted = NoConversion

InitOtherVars ==
    /\ InitGfxVars
    /\ InitLayoutVars
    /\ InitTriangleVars
    /\ InitRunVars

----------------------------------------------------------------------------
(* Event dispatch *)

\* the queue may hold a message of an earlier dispatch
InitQueues == { <<>>, <<TimeTick>> }

InitEventVars(queues) ==
    /\ messages \in queues
    /\ status = ""
    /\ call = NoCall
    /\ built = [root |-> root, messages |-> messages]

InitDrawVars ==
    /\ calls = <<>>
    /\ overlays = <<>>
    /\ depth = 0
    /\ frame = NoFrame

Init ==
    /\ root \in EventRoots
    /\ layout \in Layouts
    /\ window \in { Rectangle(0, 0, F32(MaxView), F32(MaxView)) }
    /\ renderer \in { TipRenderer(Size(0, F32(1))) }
    /\ InitEventVars(InitQueues)
    /\ InitDrawVars
    /\ InitOtherVars

\* the user interface hands `event` to the root widget
Dispatch(r, event, cursor_position) ==
    /\ Len(messages) < MaxQueue
    /\ root' = r.self
    /\ messages' = r.messages
    /\ status' = r.status
    /\ call' = [widget |-> root.kind, event |-> event,
                cursor_position |-> cursor_position, before |-> messages,
                offered |-> r.offered]
    /\ UNCHANGED <<layout, window, renderer, built, drawVars, otherVars>>

RadioEvent ==
    /\ root.kind = "Radio"
    /\ \E event \in Events, cursor_position \in Cursors :
          Dispatch(RadioOnEvent(root, event, layout, cursor_position,
                                messages),
                   event, cursor_position)

TogglerEvent ==
    /\ root.kind = "Toggler"
    /\ \E event \in Events, cursor_position \in Cursors :
          Dispatch(TogglerOnEvent(root, event, layout, cursor_position,
                                  messages),
                   event, cursor_position)

TooltipEvent ==
    /\ root.kind = "Tooltip"
    /\ \E event \in Events, cursor_position \in Cursors :
          Dispatch(TooltipOnEvent(root, event, layout, cursor_position,
                                  messages),
                   event, cursor_position)

Next == RadioEvent \/ TogglerEvent \/ TooltipEvent

Spec == Init /\ [][Next]_vars

----------------------------------------------------------------------------
(* Event dispatch: properties *)

IsPress(event) == event \in {MouseLeftPressed, FingerPressed}

\* the half-open containment of the point p in the bounds b
HalfOpen(b, p) ==
    /\ b.x <= p.x /\ p.x < b.x + b.width
    /\ b.y <= p.y /\ p.y < b.y + b.height

\* the messages appended to the queue since the root was built
Emitted == SubSeq(messages, Len(built.messages) + 1, Len(messages))

\* C1: a left mouse press or finger press inside the bounds of a Radio
\* appends exactly one message, the Radio's on_click, at the end of the
\* queue, keeps the earlier messages in place and returns Captured.
C1_RadioClickAppendsOnClick ==
    (/\ call.widget = "Radio"
     /\ IsPress(call.event)
     /\ Contains(layout, call.cursor_position))
    => /\ Len(messages) = Len(call.before) + 1
       /\ SubSeq(messages, 1, Len(call.before)) = call.before
       /\ messages[Len(messages)] = root.on_click
       /\ status = Captured

C1_Witness ==
    /\ call.widget = "Radio"
    /\ call.event = FingerPressed
    /\ Contains(layout, call.cursor_position)
    /\ call.before = <<TimeTick>>
    /\ messages = <<TimeTick, RadioSelected("B")>>

\* C2: any other event, and a press outside the bounds, makes Radio.on_event
\* return Ignored and leaves the queue exactly as it was.
C2_RadioOtherwiseIgnored ==
    (/\ call.widget = "Radio"
     /\ ~(IsPress(call.event) /\ Contains(layout, call.cursor_position)))
    => /\ status = Ignored
       /\ messages = call.before

C2_Witness ==
    /\ call.widget = "Radio"
    /\ call.event = MouseLeftPressed
    /\ ~Contains(layout, call.cursor_position)
    /\ layout.width > 0 /\ layout.height > 0
    /\ call.before = <<TimeTick>>
    /\ status = Ignored

\* C3: a Toggler recognizes a click on a left mouse press or a finger press
\* inside its bounds: it then appends on_toggle(not is_active) and returns
\* Captured; otherwise it returns Ignored and appends nothing.
C3_TogglerClickRule ==
    call.widget = "Toggler"
    => IF IsPress(call.event) /\ Contains(layout, call.cursor_position)
       THEN /\ messages = Append(call.before, root.on_toggle[~root.is_active])
            /\ status = Captured
       ELSE /\ messages = call.before
            /\ status = Ignored

\* C4: on_event never changes the fields of the Radio, Toggler or Tooltip:
\* the root stays as it was built, and every click on one Toggler emits the
\* same message, on_toggle(not is_active) of the Toggler as built.
C4_OnEventKeepsWidget ==
    /\ root = built.root
    /\ root.kind = "Toggler"
       => \A i \in 1..Len(Emitted) :
             Emitted[i] = built.root.on_toggle[~built.root.is_active]

C4_Witness ==
    /\ root.kind = "Toggler"
    /\ root.is_active
    /\ Len(Emitted) = 2
    /\ status = Captured

RECURSIVE Kinds(_)
\* the kinds of the widgets from w down to its innermost content
Kinds(w) ==
    IF w.kind = "Tooltip" THEN <<w.kind>> \o Kinds(w.content) ELSE <<w.kind>>

\* the bounds of the overlay that the root Tooltip shows for the last event
CallOverlay ==
    TooltipOverlay(root, renderer, layout, call.cursor_position,
                   window).tooltip_bounds

\* the root Tooltip shows its overlay and the overlay holds the cursor
OverlayHit ==
    /\ call.widget = "Tooltip"
    /\ Contains(layout, call.cursor_position)
    /\ Contains(CallOverlay, call.cursor_position)

Offered == { call.offered[i] : i \in 1..Len(call.offered) }

\* C11 as stated: when the overlay's bounds contain the cursor the event is
\* offered to the overlay before, or instead of, the base content.
C11_OverlayHasPriority ==
    OverlayHit
    => /\ "Text" \in Offered
       /\ \A i, j \in 1..Len(call.offered) :
             (call.offered[i] = "Text"
              /\ call.offered[j] \in {"Radio", "Toggler"}) => i < j

\* C11 as amended: Tooltip.on_event never offers the event to the overlay;
\* it hands every event to the wrapped base content only, also when the
\* overlay's bounds contain the cursor.
C11_OverlayGetsNoEvent ==
    call.widget = "Tooltip"
    => /\ call.offered = Kinds(root)
       /\ "Text" \notin Offered

\* a press inside the overlay of a Tooltip, captured by the Radio under it
C11_Witness ==
    /\ OverlayHit
    /\ call.event = MouseLeftPressed
    /\ call.offered = <<"Tooltip", "Radio">>
    /\ status = Captured

----------------------------------------------------------------------------
(* Draw passes *)

InitDraw ==
    /\ root \in DrawRoots
    /\ layout \in DrawLayouts
    /\ window \in Viewports
    /\ renderer \in Renderers
    /\ InitEventVars({<<>>})
    /\ InitDrawVars
    /\ InitOtherVars

\* the user interface draws the root Tooltip
TooltipFrame ==
    /\ root.kind = "Tooltip"
    /\ \E cursor_position \in Cursors, defaults \in {Defaults(BLACK)} :
          LET pass == TooltipDraw(root, renderer, defaults, layout,
                                  cursor_position, window)
          IN  /\ calls' = pass.calls
              /\ overlays' = pass.overlays
              /\ depth' = LayerDepth(depth, pass.calls)
              /\ frame' = [drawn |-> TRUE,
                           cursor_position |-> cursor_position,
                           defaults |-> defaults, before |-> depth]
    /\ UNCHANGED <<uiVars, eventVars, otherVars>>

NextDraw == TooltipFrame

SpecDraw == InitDraw /\ [][NextDraw]_vars

----------------------------------------------------------------------------
(* Overlay placement: properties *)

InsideX(t, v) == v.x <= t.x /\ t.x + t.width <= v.x + v.width
InsideY(t, v) == v.y <= t.y /\ t.y + t.height <= v.y + v.height
Inside(t, v) == InsideX(t, v) /\ InsideY(t, v)

Overlays == { overlays[i] : i \in 1..Len(overlays) }

\* C6 as stated: the clamped overlay lies inside the viewport on both axes
\* for every input, also for viewports narrower than twice the padding.
C6_OverlayInsideViewport ==
    \A o \in Overlays : Inside(o.tooltip_bounds, o.viewport)

\* C6 as amended: the clamped overlay lies inside the viewport on every axis
\* on which the viewport is at least twice the padding wide; on an axis where
\* the viewport is narrower the overlay, which is never resized, is wider
\* than the viewport.
C6_OverlayInsideWhenItFits ==
    \A o \in Overlays :
        /\ o.viewport.width >= 2 * o.padding
              => InsideX(o.tooltip_bounds, o.viewport)
        /\ o.viewport.height >= 2 * o.padding
              => InsideY(o.tooltip_bounds, o.viewport)
        /\ o.viewport.width < 2 * o.padding
              => o.tooltip_bounds.width > o.viewport.width
        /\ o.viewport.height < 2 * o.padding
              => o.tooltip_bounds.height > o.viewport.height

\* a padded overlay that overflowed the bottom edge and was moved in
C6_Witness ==
    \E o \in Overlays :
        /\ o.unclamped.y + o.unclamped.height
              > o.viewport.y + o.viewport.height
        /\ o.padding > 0
        /\ o.tooltip_bounds.y < o.unclamped.y
        /\ Inside(o.tooltip_bounds, o.viewport)

\* C7 as stated: an overlay placed above the viewport ends with
\* tooltip.y = viewport.y, one placed left of it with tooltip.x = viewport.x,
\* and the final bounds are never outside the viewport.
C7_ClampToNearEdge ==
    \A o \in Overlays :
        /\ o.unclamped.y < o.viewport.y
              => /\ o.tooltip_bounds.y = o.viewport.y
                 /\ Inside(o.tooltip_bounds, o.viewport)
        /\ o.unclamped.x < o.viewport.x
              => /\ o.tooltip_bounds.x = o.viewport.x
                 /\ Inside(o.tooltip_bounds, o.viewport)

\* C7 as amended: an overlay placed above the viewport ends with
\* tooltip.y = viewport.y and one placed left of it with
\* tooltip.x = viewport.x; the final bounds are then inside the viewport on
\* every axis on which the viewport is at least twice the padding wide.
C7_ClampToNearEdgeWhenItFits ==
    \A o \in Overlays :
        (o.unclamped.y < o.viewport.y \/ o.unclamped.x < o.viewport.x)
        => /\ o.unclamped.y < o.viewport.y
                 => o.tooltip_bounds.y = o.viewport.y
           /\ o.unclamped.x < o.viewport.x
                 => o.tooltip_bounds.x = o.viewport.x
           /\ o.viewport.width >= 2 * o.padding
                 => InsideX(o.tooltip_bounds, o.viewport)
           /\ o.viewport.height >= 2 * o.padding
                 => InsideY(o.tooltip_bounds, o.viewport)

\* a Top overlay that started above the viewport
C7_Witness ==
    \E o \in Overlays :
        /\ o.position = "Top"
        /\ o.unclamped.y < o.viewport.y
        /\ o.viewport.y > 0
        /\ o.tooltip_bounds.y = o.viewport.y
        /\ Inside(o.tooltip_bounds, o.viewport)

\* C8: the clamp never resizes: the final width and height are those before
\* the clamp, the text's width and height plus twice the padding.
C8_ClampKeepsSize ==
    \A o \in Overlays :
        /\ o.tooltip_bounds.width = o.unclamped.width
        /\ o.tooltip_bounds.height = o.unclamped.height
        /\ o.tooltip_bounds.width = o.text_bounds.width + 2 * o.padding
        /\ o.tooltip_bounds.height = o.text_bounds.height + 2 * o.padding

\* an overlay larger than the viewport that the clamp has moved
C8_Witness ==
    \E o \in Overlays :
        /\ o.unclamped.width > o.viewport.width
        /\ o.text_bounds.height > 0
        /\ o.tooltip_bounds.x # o.unclamped.x
        /\ o.tooltip_bounds.y # o.unclamped.y

\* C9: the clamp shifts minimally and per axis: an axis on which the overlay
\* is inside keeps its coordinate, an axis that overflows only the far edge
\* ends with the far edges equal, clamping a fitting clamped overlay again
\* changes nothing, and the result on one axis does not depend on the shift
\* of the other.
C9_ClampShiftsMinimally ==
    \A o \in Overlays :
        LET u == o.unclamped
            t == o.tooltip_bounds
            v == o.viewport
        IN  /\ InsideX(u, v) => t.x = u.x
            /\ InsideY(u, v) => t.y = u.y
            /\ (v.x <= u.x /\ u.x + u.width > v.x + v.width)
                  => t.x + t.width = v.x + v.width
            /\ (v.y <= u.y /\ u.y + u.height > v.y + v.height)
                  => t.y + t.height = v.y + v.height
            /\ (t.width <= v.width /\ t.height <= v.height)
                  => TooltipClamp(t, v) = t
            /\ TooltipClamp([u EXCEPT !.x = t.x], v).y = t.y
            /\ TooltipClamp([u EXCEPT !.y = t.y], v).x = t.x

\* an overlay inside on the y axis that overflowed only the right edge
C9_Witness ==
    \E o \in Overlays :
        /\ InsideY(o.unclamped, o.viewport)
        /\ o.viewport.x <= o.unclamped.x
        /\ o.unclamped.x + o.unclamped.width > o.viewport.x + o.viewport.width
        /\ o.unclamped.width <= o.viewport.width
        /\ o.tooltip_bounds.x < o.unclamped.x
        /\ o.tooltip_bounds.y = o.unclamped.y

\* two rectangles share a point
Overlap(a, b) ==
    /\ a.x < b.x + b.width /\ b.x < a.x + a.width
    /\ a.y < b.y + b.height /\ b.y < a.y + a.height

\* twice the centre of a rectangle along each axis
CentreX2(r) == 2 * r.x + r.width
CentreY2(r) == 2 * r.y + r.height

\* C24: before the clamp, the padded overlay of Top and Bottom has the centre
\* x of the widget's bounds and that of Left and Right the centre y; its edge
\* towards the widget is exactly gap away from the widget (Top: bottom edge =
\* bounds.y - gap, Bottom: top edge = bounds.y + bounds.height + gap, Left:
\* right edge = bounds.x - gap, Right: left edge = bounds.x + bounds.width +
\* gap); so it does not overlap the widget's bounds.
C24_PlacedBesideWidget ==
    \A o \in Overlays :
        LET u == o.unclamped
            b == o.bounds
        IN  /\ o.position \in {"Top", "Bottom"} => CentreX2(u) = CentreX2(b)
            /\ o.position \in {"Left", "Right"} => CentreY2(u) = CentreY2(b)
            /\ o.position = "Top" => u.y + u.height = b.y - o.gap
            /\ o.position = "Bottom" => u.y = b.y + b.height + o.gap
            /\ o.position = "Left" => u.x + u.width = b.x - o.gap
            /\ o.position = "Right" => u.x = b.x + b.width + o.gap
            /\ o.position # "FollowCursor" => ~Overlap(u, b)

\* an overlay on the left with a gap and a padding, of a text higher than
\* the widget, that the clamp then moves
C24_Witness ==
    \E o \in Overlays :
        /\ o.position = "Left"
        /\ o.gap = F32(MaxGap)
        /\ o.padding = F32(MaxPadding)
        /\ o.text_bounds.height > o.bounds.height
        /\ o.text_bounds.width > 0
        /\ o.unclamped.x + o.unclamped.width = o.bounds.x - o.gap
        /\ o.unclamped.y < o.bounds.y
        /\ o.tooltip_bounds # o.unclamped

----------------------------------------------------------------------------
(* Layers *)

RECURSIVE Chains(_)
\* the Tooltips of nesting n, 1 <= n, around a Radio, of every Position
Chains(n) ==
    IF n = 0 THEN { RadioNew("A", "This is A", NoneOpt, RadioFn) }
    ELSE { TooltipNew(w, TipText, p) : w \in Chains(n - 1), p \in Positions }

LayerRoots == UNION { Chains(n) : n \in 1..MaxNest }

InitLayers ==
    /\ root \in LayerRoots
    /\ layout \in DrawLayouts
    /\ window \in { Rectangle(0, 0, F32(MaxView), F32(MaxView)) }
    /\ renderer \in { TipRenderer(Size(F32(1), F32(1))) }
    /\ InitEventVars({<<>>})
    /\ InitDrawVars
    /\ InitOtherVars

SpecLayers == InitLayers /\ [][NextDraw]_vars

Ops(op) == { i \in 1..Len(calls) : calls[i].op = op }

\* C10: layer brackets are balanced in every draw pass: a layer is opened
\* only when the cursor is inside the bounds, each begin_layer is followed by
\* the overlay text and then by its end_layer before the base content, no
\* prefix of the calls has more end_layer than begin_layer, the depth after
\* the pass is the depth before it, and the base content is drawn exactly
\* once, alone when the cursor is outside.
C10_LayersBalanced ==
    frame.drawn
    => /\ \A k \in 0..Len(calls) : LayerDepth(0, SubSeq(calls, 1, k)) >= 0
       /\ depth = frame.before
       /\ Ops("begin_layer") # {} => Contains(layout, frame.cursor_position)
       /\ \A i \in Ops("begin_layer") :
             /\ i + 2 <= Len(calls)
             /\ calls[i + 1].op = "text"
             /\ calls[i + 2].op = "end_layer"
             /\ \E j \in Ops("content") : i + 2 < j
       /\ Cardinality(Ops("end_layer")) = Cardinality(Ops("begin_layer"))
       /\ Cardinality(Ops("content")) = 1
       /\ Contains(layout, frame.cursor_position)
             => Cardinality(Ops("begin_layer")) = Nesting(root)
       /\ ~Contains(layout, frame.cursor_position)
             => Len(calls) = 1

\* a draw of two nested Tooltips with the cursor inside: two brackets
C10_Witness ==
    /\ frame.drawn
    /\ Nesting(root) = 2
    /\ Contains(layout, frame.cursor_position)
    /\ Len(calls) = 7
    /\ depth = 0



----------------------------------------------------------------------------
(* Styled Tooltips *)

\* the style sheets: the default one, and one with a text color
StyleSheets == { [text_color |-> NoneStr], [text_color |-> Some(WHITE)] }

\* the default text colors an ancestor hands down
Colors == {BLACK, WHITE}

RECURSIVE StyledChains(_)
\* the Tooltips of nesting n around a Radio, of every style sheet
StyledChains(n) ==
    IF n = 0 THEN { RadioNew("A", "This is A", NoneOpt, RadioFn) }
    ELSE { TooltipStyle(TooltipNew(w, TipText, p), y) :
             w \in StyledChains(n - 1), p \in {"Top", "FollowCursor"},
             y \in StyleSheets }

StyledRoots == UNION { StyledChains(n) : n \in 1..MaxNest }

InitStyle ==
    /\ root \in StyledRoots
    /\ layout \in DrawLayouts
    /\ window \in { Rectangle(0, 0, F32(MaxView), F32(MaxView)) }
    /\ renderer \in { TipRenderer(Size(F32(1), F32(1))) }
    /\ InitEventVars({<<>>})
    /\ InitDrawVars
    /\ InitOtherVars

\* the user interface draws the root Tooltip with the defaults of an ancestor
StyledFrame ==
    /\ root.kind = "Tooltip"
    /\ \E cursor_position \in Cursors, color \in Colors :
          LET defaults == Defaults(color)
              pass == TooltipDraw(root, renderer, defaults, layout,
                                  cursor_position, window)
          IN  /\ calls' = pass.calls
              /\ overlays' = pass.overlays
              /\ depth' = LayerDepth(depth, pass.calls)
              /\ frame' = [drawn |-> TRUE,
                           cursor_position |-> cursor_position,
                           defaults |-> defaults, before |-> depth]
    /\ UNCHANGED <<uiVars, eventVars, otherVars>>

NextStyle == StyledFrame

SpecStyle == InitStyle /\ [][NextStyle]_vars

\* the k-th renderer call of the operation op
NthOp(op, k) ==
    CHOOSE i \in Ops(op) : Cardinality({ j \in Ops(op) : j < i }) = k - 1

RECURSIVE TooltipAt(_, _)
\* the k-th Tooltip of w, counted from the outermost
TooltipAt(w, k) == IF k = 1 THEN w ELSE TooltipAt(w.content, k - 1)

\* C22: in every draw pass the text of the overlay of each Tooltip is drawn
\* with the text_color of that Tooltip's style when the style has one and
\* with the inherited default color otherwise, and the wrapped content is
\* drawn with the inherited defaults, with the overlay shown or not.
C22_OverlayColorOnly ==
    frame.drawn
    => /\ \A i \in Ops("content") :
             calls[i].color = frame.defaults.text.color
       /\ Cardinality(Ops("content")) = 1
       /\ \A k \in 1..Cardinality(Ops("text")) :
             calls[NthOp("text", k)].color
               = UnwrapOr(TooltipAt(root, k).style_sheet.text_color,
                          frame.defaults.text.color)

\* a styled Tooltip around an unstyled one, drawn with the cursor inside:
\* the outer text takes the color of the style, the inner text and the
\* content the inherited one
C22_Witness ==
    /\ frame.drawn
    /\ frame.defaults = Defaults(BLACK)
    /\ Nesting(root) = 2
    /\ root.style_sheet.text_color = Some(WHITE)
    /\ root.content.style_sheet.text_color = NoneStr
    /\ Contains(layout, frame.cursor_position)
    /\ calls[NthOp("text", 1)].color = WHITE
    /\ calls[NthOp("text", 2)].color = BLACK
    /\ calls[NthOp("content", 1)].color = BLACK

----------------------------------------------------------------------------
(* Conversion of primitives *)

\* the user interface of the specifications that do not dispatch or draw
InitUiIdle ==
    /\ root = RadioNew("A", "This is A", NoneOpt, RadioFn)
    /\ layout = Rectangle(0, 0, F32(MaxSize), F32(MaxSize))
    /\ window = Rectangle(0, 0, F32(MaxView), F32(MaxView))
    /\ renderer = TipRenderer(Size(F32(1), F32(1)))
    /\ InitEventVars({<<>>})
    /\ InitDrawVars

InitConvert ==
    /\ InitUiIdle
    /\ InitLayoutVars
    /\ InitTriangleVars
    /\ InitRunVars
    /\ prim \in Primitives(Erased, MaxDepth)
    /\ converted = NoConversion

\* a canvas primitive is handed to a backend: Primitive::<B>::from(prim)
Convert ==
    /\ ~converted.done
    /\ converted' = [done |-> TRUE, outcome |-> PrimitiveFrom(prim)]
    /\ UNCHANGED <<prim, exceptGfx>>

NextConvert == Convert

SpecConvert == InitConvert /\ [][NextConvert]_vars

\* the direct children of a primitive, in order
Children(p) ==
    CASE p.variant = "Group" -> p.primitives
      [] p.variant \in {"Clip", "Translate"} -> <<p.content>>
      [] p.variant = "Cached" -> <<p.cache>>
      [] OTHER -> <<>>

RECURSIVE HasCustom(_)
HasCustom(p) ==
    \/ p.variant = "Custom"
    \/ \E i \in 1..Len(Children(p)) : HasCustom(Children(p)[i])

RECURSIVE NestingDepth(_)
NestingDepth(p) ==
    IF Children(p) = <<>> THEN 0
    ELSE 1 + CHOOSE m \in 0..MaxDepth + 1 :
                 /\ \A i \in 1..Len(Children(p)) :
                       NestingDepth(Children(p)[i]) <= m
                 /\ \E i \in 1..Len(Children(p)) :
                       NestingDepth(Children(p)[i]) = m

RECURSIVE AllOfBackend(_, _)
AllOfBackend(p, b) ==
    /\ p.backend = b
    /\ \A i \in 1..Len(Children(p)) : AllOfBackend(Children(p)[i], b)

RECURSIVE Retagged(_, _)
\* the tree p with the backend parameter of every node replaced by b and
\* nothing else changed
Retagged(p, b) ==
    CASE p.variant = "Group" ->
            [p EXCEPT !.backend = b,
                      !.primitives = [i \in 1..Len(p.primitives) |->
                                         Retagged(p.primitives[i], b)]]
      [] p.variant \in {"Clip", "Translate"} ->
            [p EXCEPT !.backend = b, !.content = Retagged(p.content, b)]
      [] p.variant = "Cached" ->
            [p EXCEPT !.backend = b, !.cache = Retagged(p.cache, b)]
      [] OTHER -> [p EXCEPT !.backend = b]

\* C12: the conversion of a tree without a Custom node returns a tree of the
\* backend that differs from the original in the backend parameter only:
\* the same variant with the same field values at every position, the same
\* children in the same order and the same nesting depth, so that erasing
\* the backend parameter again gives back the original.
C12_ConversionLossless ==
    (converted.done /\ ~HasCustom(prim))
    => /\ ~converted.outcome.panic
       /\ AllOfBackend(converted.outcome.value, Typed)
       /\ Retagged(converted.outcome.value, Erased) = prim
       /\ NestingDepth(converted.outcome.value) = NestingDepth(prim)

C12_Witness ==
    /\ converted.done
    /\ ~HasCustom(prim)
    /\ prim.variant = "Group"
    /\ Len(prim.primitives) = MaxChildren
    /\ prim.primitives[1].variant = "Clip"
    /\ prim.primitives[MaxChildren].variant = "Text"
    /\ NestingDepth(prim) = MaxDepth
    /\ converted.outcome.value.primitives[1].variant = "Clip"

\* C13: the conversion panics exactly when the tree holds a Custom node, at
\* the root or anywhere below a Group, Clip, Translate or Cached, and then
\* returns no tree; a tree without a Custom node never panics.
C13_CustomIsFatal ==
    converted.done => (converted.outcome.panic <=> HasCustom(prim))

C13_Witness ==
    /\ converted.done
    /\ converted.outcome.panic
    /\ prim.variant = "Group"
    /\ Len(prim.primitives) = MaxChildren
    /\ prim.primitives[1].variant = "Cached"
    /\ prim.primitives[1].cache.variant = "Custom"
    /\ \A i \in 2..MaxChildren : ~HasCustom(prim.primitives[i])


----------------------------------------------------------------------------
(* Layout and structural hash *)

Fonts == {"Default", "Monospace"}
Contents == {"a", "ab"}
\* the number of characters of a content
Chars == ("a" :> 1) @@ ("ab" :> 2)
TextSizes == {1, 2}
Lengths == {Shrink, Fill} \cup { Units(n) : n \in 1..MaxUnits }

\* a renderer of default size 1 that measures a text as one line: every
\* character as wide as the advance of the font, the line as high as the size
LayoutRenderer(advance) ==
    RendererNew(1, [ k \in Contents \X TextSizes \X Fonts |->
                       Size(F32(Chars[k[1]] * advance[k[3]]), F32(k[2])) ])

\* a renderer whose fonts measure alike, and one whose fonts differ
LayoutRenderers ==
    { LayoutRenderer([f \in Fonts |-> 1]),
      LayoutRenderer([f \in Fonts |-> IF f = "Default" THEN 1 ELSE 2]) }

LayoutLimits ==
    { LimitsNew(Size(F32(a), F32(a)), Size(F32(c), F32(d))) :
        a \in 0..MaxLimit, c \in 0..MaxLimit, d \in 0..MaxLimit }

LayoutTexts ==
    { [TextNew(c) EXCEPT !.size = z, !.width = w, !.height = h, !.font = f,
                         !.color = k[1], !.horizontal_alignment = k[2]] :
        c \in Contents, z \in {NoneOpt, Some(2)}, w \in Lengths,
        h \in {Shrink, Units(1)}, f \in Fonts,
        k \in { <<NoneStr, "Left">>, <<Some(BLACK), "Left">>,
                <<NoneStr, "Center">> } }

LayoutRadios ==
    { [RadioNew("A", c, NoneOpt, RadioFn) EXCEPT
          !.width = w, !.size = s, !.spacing = g, !.text_size = z] :
        c \in Contents, w \in Lengths, s \in {1, RadioDefaultSize},
        g \in {0, RadioDefaultSpacing}, z \in {NoneOpt, Some(2)} }

LayoutTogglers ==
    { [TogglerSize(TogglerNew(FALSE, c, [b \in BOOLEAN |-> TogglerToggled(b)]),
                   s) EXCEPT !.width = w, !.spacing = g, !.font = f] :
        c \in {NoneStr, Some("a")}, s \in {1, 2}, w \in Lengths,
        g \in {0, 1}, f \in Fonts }

LayoutTooltips ==
    { TooltipNew(w, TipText, "Top") :
        w \in { r \in LayoutRadios : r.width = Shrink /\ r.text_size = NoneOpt }
              \cup { t \in LayoutTexts : /\ t.width = Shrink
                                         /\ t.height = Shrink
                                         /\ t.color = NoneStr
                                         /\ t.horizontal_alignment = "Left" } }

LayoutRules ==
    { RuleHorizontal(n) : n \in 0..MaxUnits }
    \cup { RuleVertical(n) : n \in 0..MaxUnits }

\* State::new with the size a Triangle::new left
LayoutTriangles ==
    { TriangleOf(TriangleNew(F32(z), 0, StateNew)) :
        z \in 0..MaxUnits }

LayoutRoots ==
    LayoutTexts \cup LayoutRadios \cup LayoutTogglers \cup LayoutTooltips
    \cup LayoutRules \cup LayoutTriangles

InitLayout ==
    /\ root \in LayoutRoots
    /\ layout = Rectangle(0, 0, 0, 0)
    /\ window = Rectangle(0, 0, F32(MaxView), F32(MaxView))
    /\ renderer \in LayoutRenderers
    /\ InitEventVars({<<>>})
    /\ InitDrawVars
    /\ InitGfxVars
    /\ InitTriangleVars
    /\ InitRunVars
    /\ offer \in { l \in LayoutLimits : /\ l.min.width <= l.max.width
                                         /\ l.min.height <= l.max.height }
    /\ laid = NoNode
    /\ hasher = NoHasher

\* the user interface hashes the layout of the root
HashLayout ==
    /\ ~hasher.done
    /\ hasher' = [done |-> TRUE, state |-> WidgetHashLayout(root, <<>>)]
    /\ UNCHANGED <<uiVars, offer, laid, exceptLayout>>

\* the user interface lays the root out within the Limits
Layout ==
    /\ hasher.done
    /\ ~laid.done
    /\ laid' = [done |-> TRUE, value |-> WidgetLayout(root, renderer, offer),
                width |-> WidgetWidth(root), height |-> WidgetHeight(root)]
    /\ layout' = laid'.value.bounds
    /\ UNCHANGED <<root, window, renderer, offer, hasher, exceptLayout>>

NextLayout == HashLayout \/ Layout

SpecLayout == InitLayout /\ [][NextLayout]_vars

\* the widgets of the kind of the root that feed the Hasher what the root fed
SameHash ==
    { w \in LayoutRoots : /\ w.kind = root.kind
                          /\ WidgetHashLayout(w, <<>>) = hasher.state }

\* C14: two widgets of the same kind (Text, Radio, Toggler, Tooltip) that
\* feed equal values to hash_layout have equal layout Nodes under the same
\* Limits and renderer.
C14_HashCoversLayout ==
    (laid.done /\ root.kind \in {"Text", "Radio", "Toggler", "Tooltip"})
    => \A w \in SameHash : WidgetLayout(w, renderer, offer) = laid.value


\* the Texts that differ from the root at most in color and alignment
SameButPaint ==
    { w \in LayoutTexts :
        w = [root EXCEPT !.color = w.color,
                         !.horizontal_alignment = w.horizontal_alignment,
                         !.vertical_alignment = w.vertical_alignment] }

\* the Texts that differ from the root in content, size, width or height
OtherLayoutFields ==
    { w \in LayoutTexts : \/ w.content # root.content
                          \/ w.size # root.size
                          \/ w.width # root.width
                          \/ w.height # root.height }

\* C15: Text.hash_layout feeds the marker, the content, the size, the width
\* and the height, in this order; a Text that differs only in color or
\* alignment feeds the same values, and a Text that differs in content,
\* size, width or height feeds other values.
C15_TextHashFields ==
    (hasher.done /\ root.kind = "Text")
    => /\ hasher.state = <<"Text::Marker", root.content>>
                           \o HashOption(root.size) \o HashLength(root.width)
                           \o HashLength(root.height)
       /\ \A w \in SameButPaint : TextHashLayout(w, <<>>) = hasher.state
       /\ \A w \in OtherLayoutFields : TextHashLayout(w, <<>>) # hasher.state

C15_Witness ==
    /\ hasher.done
    /\ root.kind = "Text"
    /\ root.color = Some(BLACK)
    /\ root.size = Some(2)
    /\ root.height = Units(1)
    /\ \E w \in SameButPaint : w.color # root.color
    /\ \E w \in OtherLayoutFields :
          /\ w.height # root.height
          /\ w = [root EXCEPT !.height = w.height]


\* C18: the Node of every layout is clipped to the Limits: its width and
\* its height lie between the minimum and the maximum of the Limits and are
\* not negative.
C18_NodeWithinLimits ==
    laid.done
    => /\ offer.min.width <= laid.value.bounds.width
       /\ laid.value.bounds.width <= offer.max.width
       /\ offer.min.height <= laid.value.bounds.height
       /\ laid.value.bounds.height <= offer.max.height
       /\ 0 <= laid.value.bounds.width
       /\ 0 <= laid.value.bounds.height

----------------------------------------------------------------------------
(* The Tooltip as a wrapper *)

\* the widgets wrapped: a Radio, a Toggler and a Tooltip around a Radio
WrappedContents ==
    { RadioNew("A", "a", NoneOpt, RadioFn),
      TogglerSize(TogglerNew(TRUE, Some("a"),
                             [b \in BOOLEAN |-> TogglerToggled(b)]), 1),
      TooltipNew(RadioNew("B", "ab", NoneOpt, RadioFn), TipText, "Left") }

\* Tooltips of two texts, two Positions and two gaps and paddings
Wrappers ==
    { TooltipPadding(TooltipGap(TooltipNew(w, t, p), g[1]), g[2]) :
        w \in WrappedContents, t \in {TipText, "a"},
        p \in {"Top", "FollowCursor"},
        g \in { <<0, DEFAULT_PADDING>>, <<MaxGap, MaxPadding>> } }

InitWrapper ==
    /\ root \in Wrappers
    /\ layout = Rectangle(0, 0, 0, 0)
    /\ window = Rectangle(0, 0, F32(MaxView), F32(MaxView))
    /\ renderer = LayoutRenderer([f \in Fonts |-> 1])
    /\ InitEventVars(InitQueues)
    /\ InitDrawVars
    /\ InitGfxVars
    /\ InitTriangleVars
    /\ InitRunVars
    /\ offer \in { LimitsNew(SizeZERO, Size(F32(c), F32(c))) : c \in 1..MaxLimit }
    /\ laid = NoNode
    /\ hasher = NoHasher

\* the user interface hands an event to the Tooltip it has laid out
WrapperEvent ==
    /\ laid.done
    /\ TooltipEvent

NextWrapper == HashLayout \/ Layout \/ WrapperEvent

SpecWrapper == InitWrapper /\ [][NextWrapper]_vars

\* what on_event of the wrapped content leaves for the last event
ContentOutcome ==
    WidgetOnEvent(root.content, call.event, layout, call.cursor_position,
                  call.before)

\* C25: on_event of a Tooltip returns the Status and leaves the queue that
\* on_event of its content returns and leaves for the same event, layout,
\* cursor and queue; its width, height and layout Node are those of the
\* content and its hash_layout feeds, after its own marker, what the content
\* feeds; none of them depends on the text, Position, gap or padding of the
\* Tooltip, which the content does not hold.
C25_TooltipTransparent ==
    /\ call.widget = "Tooltip"
          => /\ status = ContentOutcome.status
             /\ messages = ContentOutcome.messages
    /\ laid.done
          => /\ laid.value = WidgetLayout(root.content, renderer, offer)
             /\ laid.width = WidgetWidth(root.content)
             /\ laid.height = WidgetHeight(root.content)
    /\ hasher.done
          => hasher.state
               = <<"Tooltip::Marker">> \o WidgetHashLayout(root.content, <<>>)

\* a Tooltip of a gap and a padding following the cursor, laid out as its
\* Toggler and clicked: the Toggler's message is in the queue
C25_Witness ==
    /\ root.position = "FollowCursor"
    /\ root.gap = MaxGap
    /\ root.padding = MaxPadding
    /\ root.content.kind = "Toggler"
    /\ laid.done
    /\ Len(laid.value.children) = 2
    /\ laid.width = Fill
    /\ hasher.state = <<"Tooltip::Marker", "Toggler::Marker", "Some", "a">>
    /\ call.widget = "Tooltip"
    /\ call.before = <<TimeTick>>
    /\ status = Captured
    /\ messages = <<TimeTick, TogglerToggled(FALSE)>>

----------------------------------------------------------------------------
(* Rows *)

\* the children of the Rows explored
RowItems ==
    { [TextNew("a") EXCEPT !.width = w] :
        w \in {Shrink, Fill, FillPortion(1), FillPortion(2)} }
    \cup { RuleVertical(1) }
    \cup { TriangleOf(TriangleNew(F32(1), 0, StateNew)) }

RowChildren ==
    UNION { [1..n -> RowItems] : n \in 0..MaxChildren }

\* the widths of the Rows explored: those of a widget and that of the
\* scenario of a Row 300 wide
RowLengths == Lengths \cup { Units(300) }

Rows ==
    { [RowNew EXCEPT !.width = w, !.height = h, !.spacing = g,
                     !.children = c] :
        w \in RowLengths, h \in {Shrink}, g \in 0..MaxUnits,
        c \in RowChildren }
    \cup { [RowNew EXCEPT !.width = w, !.height = h] :
             w \in Lengths, h \in Lengths }

\* the Radios and Togglers, also of a width that is a portion
RowWidgets ==
    LayoutRadios \cup LayoutTogglers
    \cup { [r EXCEPT !.width = FillPortion(2)] :
             r \in { t \in LayoutTogglers \cup LayoutRadios : t.width = Fill } }

RowRoots == Rows \cup RowWidgets \cup LayoutRules

\* the Limits explored, and one as wide as the scenario's Row
RowLimits ==
    { l \in LayoutLimits : /\ l.min.width <= l.max.width
                           /\ l.min.height <= l.max.height }
    \cup { LimitsNew(SizeZERO, Size(F32(300), F32(MaxLimit))) }

InitRow ==
    /\ root \in RowRoots
    /\ layout = Rectangle(0, 0, 0, 0)
    /\ window = Rectangle(0, 0, F32(MaxView), F32(MaxView))
    /\ renderer = LayoutRenderer([f \in Fonts |-> 1])
    /\ InitEventVars({<<>>})
    /\ InitDrawVars
    /\ InitGfxVars
    /\ InitTriangleVars
    /\ InitRunVars
    /\ offer \in RowLimits
    /\ laid = NoNode
    /\ hasher = NoHasher

\* the parent lays the Row out within the Limits
RowFrame ==
    /\ ~laid.done
    /\ laid' = [done |-> TRUE, value |-> WidgetLayout(root, renderer, offer)]
    /\ layout' = laid'.value.bounds
    /\ UNCHANGED <<root, window, renderer, offer, hasher, exceptLayout>>

NextRow == RowFrame

SpecRow == InitRow /\ [][NextRow]_vars

\* the fill weight of every child of the Row that the root lays out
Weights ==
    CASE root.kind = "Row" ->
            [i \in 1..Len(root.children) |->
                FillFactor(WidgetWidth(root.children[i]))]
      [] root.kind = "Radio" -> <<0, FillFactor(root.width)>>
      [] root.kind = "Toggler" ->
            IF root.label.some THEN <<FillFactor(root.width), 0>> ELSE <<0>>
      [] OTHER -> <<>>

\* the sum of f[i] over the indices in S
RECURSIVE SumOver(_, _)
SumOver(f, S) ==
    IF S = {} THEN 0
    ELSE LET i == CHOOSE j \in S : TRUE IN f[i] + SumOver(f, S \ {i})

FillChildren == { i \in 1..Len(Weights) : Weights[i] > 0 }
FixedChildren == { i \in 1..Len(Weights) : Weights[i] = 0 }
Widths == [i \in 1..Len(Weights) |-> laid.value.children[i].bounds.width]

\* R: what the Row's width leaves after the spacing and the children that
\* do not fill
Remaining ==
    Max(0, LimitsWidth(offer, root.width).max.width
           - F32(root.spacing) * Max(Len(Weights) - 1, 0)
           - SumOver(Widths, FixedChildren))

\* C16: in a Row with remaining space R and total fill weight W every fill
\* child is R * weight / W wide (to the precision of the numbers: half a
\* unit), the widths of the fill children add up to R within that precision
\* and exactly when W divides R, and no width is negative; with R = 0 every
\* fill child is 0 wide.
C16_FillShares ==
    (laid.done /\ FillChildren # {})
    => LET W == SumOver(Weights, FillChildren)
           total == SumOver(Widths, FillChildren)
       IN  /\ \A i \in FillChildren :
                /\ Widths[i] * W <= Remaining * Weights[i]
                /\ Remaining * Weights[i] < (Widths[i] + 1) * W
                /\ Widths[i] >= 0
           /\ total <= Remaining
           /\ Remaining - total < Cardinality(FillChildren)
           /\ Remaining % W = 0 => total = Remaining
           /\ Remaining = 0 => \A i \in FillChildren : Widths[i] = 0

\* the scenario: a Row 300 wide, FillPortion(1) and FillPortion(2), no
\* spacing: 100 and 200
C16_Witness ==
    /\ laid.done
    /\ root.kind = "Row"
    /\ root.width = Units(300)
    /\ root.spacing = 0
    /\ Len(root.children) = 2
    /\ WidgetWidth(root.children[1]) = FillPortion(1)
    /\ WidgetWidth(root.children[2]) = FillPortion(2)
    /\ Remaining = F32(300)
    /\ Widths = <<F32(100), F32(200)>>


\* the size that a Length implies for a widget without content within the
\* interval [least, most] of an axis
Implied(length, least, most) ==
    IF length.kind = "Units" THEN Max(Min(F32(length.n), most), least)
    ELSE least

\* the root has no child: a Rule, or a Row that holds nothing
Childless ==
    \/ root.kind = "Rule"
    \/ root.kind = "Row" /\ root.children = <<>>

\* C17: a widget without children (a Rule, an empty Row) is laid out, on
\* each axis, at the least size its Length implies within the Limits: the
\* minimum of the Limits for Shrink (zero when that minimum is zero) and for
\* Fill, the fixed amount clipped into the Limits for a fixed Length.
C17_ChildlessIsMinimal ==
    (laid.done /\ Childless)
    => /\ laid.value.children = <<>>
       /\ laid.value.bounds.x = 0
       /\ laid.value.bounds.y = 0
       /\ laid.value.bounds.width
             = Implied(root.width, offer.min.width, offer.max.width)
       /\ laid.value.bounds.height
             = Implied(root.height, offer.min.height, offer.max.height)
       /\ (root.width.kind = "Shrink" /\ offer.min.width = 0)
             => laid.value.bounds.width = 0

C17_Witness ==
    /\ laid.done
    /\ root.kind = "Rule"
    /\ root.is_horizontal
    /\ root.height = Units(1)
    /\ offer.min.width = F32(1)
    /\ offer.max.width = F32(MaxLimit)
    /\ offer.max.height = F32(MaxLimit)
    /\ laid.value.bounds = Rectangle(0, 0, F32(1), F32(1))


\* the rectangle holds no point
Empty(r) == r.width <= 0 \/ r.height <= 0

RECURSIVE ContainsChildren(_)
\* every Node of the tree holds every point of the bounds of its children,
\* which are relative to it
ContainsChildren(n) ==
    \A i \in 1..Len(n.children) :
        LET c == n.children[i]
        IN  /\ \/ Empty(c.bounds)
               \/ /\ 0 <= c.bounds.x
                  /\ 0 <= c.bounds.y
                  /\ c.bounds.x + c.bounds.width <= n.bounds.width
                  /\ c.bounds.y + c.bounds.height <= n.bounds.height
            /\ ContainsChildren(c)

\* C19: every Node of a layout holds the bounds of its children, for every
\* Limits, size, spacing and label measurement.
C19_NodeContainsChildren == laid.done => ContainsChildren(laid.value)


----------------------------------------------------------------------------
(* Draw of the Radio and the Toggler on their own layout *)

\* what a draw leaves: the renderer calls it made, and whether an unwrap of
\* children.next() met None and panicked
Drawn(cs) == [panic |-> FALSE, calls |-> cs]
DrawPanicked(cs) == [panic |-> TRUE, calls |-> cs]

\* layout.children(): the bounds of the children of the Node, in order, in
\* the coordinates of the Layout
LayoutChildren(node) ==
    [ i \in 1..Len(node.children) |->
        LayoutWithOffset(Point(node.bounds.x, node.bounds.y),
                         node.children[i]) ]

\* Radio::draw
RadioDraw(self, rdr, defaults, node, cursor_position) ==
    LET children == LayoutChildren(node)
    IN  IF Len(children) < 2 THEN DrawPanicked(<<>>)
        ELSE LET radio_bounds == children[1]
                 label_bounds == children[2]
             IN  Drawn(<<RendererCall("fill_text", label_bounds,
                                      defaults.text.color, self.label),
                         RendererCall("draw", radio_bounds, "", self.kind)>>)

\* Toggler::draw
TogglerDraw(self, rdr, defaults, node, cursor_position) ==
    LET children == LayoutChildren(node)
        label == IF self.label.some /\ Len(children) >= 1
                 THEN <<RendererCall("fill_text", children[1],
                                     defaults.text.color, self.label.v)>>
                 ELSE <<>>
        rest == IF self.label.some THEN Tail(children) ELSE children
    IN  IF self.label.some /\ children = <<>> THEN DrawPanicked(<<>>)
        ELSE IF rest = <<>> THEN DrawPanicked(label)
        ELSE Drawn(label \o <<RendererCall("draw", Head(rest), "",
                                           self.kind)>>)

LeafRoots == LayoutRadios \cup LayoutTogglers

InitLeaf ==
    /\ root \in LeafRoots
    /\ layout = Rectangle(0, 0, 0, 0)
    /\ window = Rectangle(0, 0, F32(MaxView), F32(MaxView))
    /\ renderer = LayoutRenderer([f \in Fonts |-> 1])
    /\ InitEventVars({<<>>})
    /\ InitDrawVars
    /\ InitGfxVars
    /\ InitTriangleVars
    /\ InitRunVars
    /\ offer \in { l \in LayoutLimits : /\ l.min.width <= l.max.width
                                         /\ l.min.height <= l.max.height }
    /\ laid = NoNode
    /\ hasher = NoHasher

\* the user interface draws the Radio on the Node its layout returned
RadioFrame ==
    /\ root.kind = "Radio"
    /\ laid.done
    /\ ~frame.drawn
    /\ \E cursor_position \in Cursors :
          LET r == RadioDraw(root, renderer, Defaults(BLACK), laid.value,
                             cursor_position)
          IN  /\ calls' = r.calls
              /\ frame' = [drawn |-> TRUE, cursor_position |-> cursor_position,
                           defaults |-> Defaults(BLACK), before |-> depth,
                           panic |-> r.panic]
    /\ UNCHANGED <<uiVars, eventVars, overlays, depth, otherVars>>

\* the user interface draws the Toggler on the Node its layout returned
TogglerFrame ==
    /\ root.kind = "Toggler"
    /\ laid.done
    /\ ~frame.drawn
    /\ \E cursor_position \in Cursors :
          LET r == TogglerDraw(root, renderer, Defaults(BLACK), laid.value,
                               cursor_position)
          IN  /\ calls' = r.calls
              /\ frame' = [drawn |-> TRUE, cursor_position |-> cursor_position,
                           defaults |-> Defaults(BLACK), before |-> depth,
                           panic |-> r.panic]
    /\ UNCHANGED <<uiVars, eventVars, overlays, depth, otherVars>>

NextLeaf == RowFrame \/ RadioFrame \/ TogglerFrame

SpecLeaf == InitLeaf /\ [][NextLeaf]_vars

\* the place of the indicator among the children of the Node of the root
IndicatorAt ==
    IF root.kind = "Radio" THEN 1 ELSE IF root.label.some THEN 2 ELSE 1

\* the most the fixed Lengths of the indicator allow
IndicatorMost ==
    IF root.kind = "Radio" THEN Size(F32(root.size), F32(root.size))
    ELSE Size(F32(2 * root.size.v), F32(root.size.v))

\* C27: the Node of Radio.layout has two children, the indicator and then
\* the label; that of Toggler.layout has the label and then the indicator
\* when there is a label and the indicator alone when there is none; so no
\* draw on that Node panics for a missing child, the label is drawn in the
\* bounds of the label child and the indicator in the bounds of the child
\* of the fixed Lengths, which is never larger than they allow.
C27_DrawFindsChildren ==
    /\ (laid.done /\ root.kind = "Radio") => Len(laid.value.children) = 2
    /\ (laid.done /\ root.kind = "Toggler")
          => Len(laid.value.children) = IF root.label.some THEN 2 ELSE 1
    /\ laid.done
          => LET child == laid.value.children[IndicatorAt]
             IN  /\ child.children = <<>>
                 /\ child.bounds.width <= IndicatorMost.width
                 /\ child.bounds.height <= IndicatorMost.height
                 /\ \A i \in 1..Len(laid.value.children) :
                       i < IndicatorAt
                       => laid.value.children[i].bounds.x
                            + laid.value.children[i].bounds.width
                            <= child.bounds.x
                 /\ \A i \in 1..Len(laid.value.children) :
                       i > IndicatorAt
                       => child.bounds.x + child.bounds.width
                            <= laid.value.children[i].bounds.x
    /\ frame.drawn
          => /\ ~frame.panic
             /\ calls[Len(calls)].op = "draw"
             /\ calls[Len(calls)].bounds
                   = LayoutChildren(laid.value)[IndicatorAt]
             /\ Len(calls) = Len(laid.value.children)
             /\ Len(calls) = 2
                   => /\ calls[1].op = "fill_text"
                      /\ calls[1].bounds
                            = LayoutChildren(laid.value)[3 - IndicatorAt]

\* a Toggler with a label drawn on its Node: the label first, then the
\* indicator to its right
C27_Witness ==
    /\ frame.drawn
    /\ root.kind = "Toggler"
    /\ root.label = Some("a")
    /\ Len(laid.value.children) = 2
    /\ laid.value.children[1].bounds.width > 0
    /\ laid.value.children[2].bounds.x > 0
    /\ laid.value.children[2].bounds.width = F32(2 * root.size.v)
    /\ calls[2].bounds = laid.value.children[2].bounds
    /\ calls[1].subject = "a"

----------------------------------------------------------------------------
(* The Triangle of the direct_wgpu example *)

TriangleSizes == { F32(z) : z \in 0..MaxUnits }
Rotations == 0..MaxRotation

InitTriangle ==
    /\ InitUiIdle
    /\ InitGfxVars
    /\ InitLayoutVars
    /\ InitTriangleVars
    /\ InitRunVars

\* Example::view builds the widget: Triangle::new(size, rotation, state)
TriangleBuild ==
    /\ \E size \in TriangleSizes, rotation \in Rotations :
          /\ triangle_state' = TriangleNew(size, rotation, triangle_state)
          /\ triangle_state'.inner.v.writes <= MaxWrites
          /\ device' = [device EXCEPT
                           !.last = "new",
                           !.size = size,
                           !.rotation = rotation,
                           !.created = IF triangle_state'.inner.some
                                          /\ ~triangle_state.inner.some
                                       THEN @ + 1 ELSE @,
                           !.creator = IF triangle_state'.inner.some
                                          /\ ~triangle_state.inner.some
                                       THEN "new" ELSE @]
    /\ UNCHANGED <<exceptTriangle, layoutVars>>

\* the user interface hashes the layout of the Triangle
TriangleHash ==
    /\ device.last # ""
    /\ hasher' = [done |-> TRUE,
                  state |-> TriangleHashLayout(TriangleOf(triangle_state),
                                               <<>>)]
    /\ device' = [device EXCEPT !.last = "hash_layout"]
    /\ UNCHANGED <<exceptTriangle, triangle_state, offer, laid>>

\* the user interface lays the Triangle out
TriangleLay ==
    /\ device.last # ""
    /\ laid' = [done |-> TRUE,
                value |-> TriangleLayout(TriangleOf(triangle_state),
                                         renderer, offer)]
    /\ device' = [device EXCEPT !.last = "layout"]
    /\ UNCHANGED <<exceptTriangle, triangle_state, offer, hasher>>

\* the user interface draws the Triangle
TriangleFrame ==
    /\ device.last # ""
    /\ device.drawn < MaxDraws
    /\ triangle_state' = TriangleDraw(triangle_state, device.created)
    /\ device' = [device EXCEPT
                     !.last = "draw",
                     !.drawn = @ + 1,
                     !.created = IF triangle_state'.inner
                                    # triangle_state.inner
                                 THEN @ + 1 ELSE @,
                     !.creator = IF triangle_state'.inner
                                    # triangle_state.inner
                                 THEN "draw" ELSE @]
    /\ UNCHANGED <<exceptTriangle, layoutVars>>

NextTriangle == TriangleBuild \/ TriangleHash \/ TriangleLay \/ TriangleFrame

SpecTriangle == InitTriangle /\ [][NextTriangle]_vars

\* StateInner::create has run at most once, in a draw, and the cell is Some
\* from the first draw on
CreatedOnceInDraw ==
    /\ device.created <= 1
    /\ device.created = 1 <=> triangle_state.inner.some
    /\ device.created = 1 => device.creator = "draw"
    /\ device.drawn = 0 <=> device.created = 0

\* the step creates the StateInner only in the first draw, and a cell that
\* is Some keeps its StateInner
KeepsInner ==
    /\ device'.created # device.created
          => device'.last = "draw" /\ device.drawn = 0
    /\ triangle_state.inner.some
          => /\ triangle_state'.inner.some
             /\ triangle_state'.inner.v.id = triangle_state.inner.v.id

\* C20: over every sequence of Triangle::new, hash_layout, layout and draw on
\* one State, StateInner::create runs at most once, in the first draw and
\* never in Triangle::new, and a cell that is Some never becomes None and
\* never gets another StateInner.
C20_InnerCreatedOnce == []CreatedOnceInDraw /\ [][KeepsInner]_vars

C20_Witness ==
    /\ device.drawn = MaxDraws
    /\ device.last = "new"
    /\ device.created = 1
    /\ triangle_state.inner.some
    /\ triangle_state.inner.v.id = 1
    /\ triangle_state.rotation = MaxRotation
    /\ triangle_state.inner.v.uniform_buffer = MaxRotation

\* the rotation and the size of the State are those of the most recent
\* Triangle::new, and the uniform buffer of a StateInner holds the rotation
RotationInBuffer ==
    /\ device.last # ""
          => /\ triangle_state.rotation = device.rotation
             /\ triangle_state.size = device.size
    /\ triangle_state.inner.some
          => triangle_state.inner.v.uniform_buffer = triangle_state.rotation

\* a Triangle::new that passes the rotation the State holds leaves the
\* StateInner as it is, without a write of the buffer
WritesOnlyOnChange ==
    (device'.last = "new" /\ device'.rotation = triangle_state.rotation)
    => triangle_state'.inner = triangle_state.inner

\* C26: over every sequence of Triangle::new and draw, the uniform buffer of
\* an initialized StateInner holds state.rotation, which is the rotation
\* passed to the most recent Triangle::new (also when that call came before
\* the first draw), state.size is the size passed to the most recent
\* Triangle::new, and a Triangle::new with the rotation the State already
\* holds writes nothing to the buffer.
C26_RotationConsistent == []RotationInBuffer /\ [][WritesOnlyOnChange]_vars

\* a Triangle::new after the first draw changed the rotation: one write
C26_Witness ==
    /\ device.last = "new"
    /\ device.drawn = 1
    /\ device.rotation = 1
    /\ device.size = F32(MaxUnits)
    /\ triangle_state.inner.some
    /\ triangle_state.inner.v.writes = 1
    /\ triangle_state.inner.v.uniform_buffer = 1

----------------------------------------------------------------------------
(* Pipeline::draw *)

Bundles == {"bundle1", "bundle2"}

\* the jobs: a bundle and the bounds of the widget that made it
Jobs ==
    { DirectWgpuJobNew(b, r) :
        b \in Bundles,
        r \in { Rectangle(0, 0, F32(1), F32(1)),
                Rectangle(F32(1), F32(1), F32(2), F32(1)) } }

JobLists == UNION { [1..n -> Jobs] : n \in 0..MaxJobs }

InitPipeline ==
    /\ InitUiIdle
    /\ InitGfxVars
    /\ InitLayoutVars
    /\ InitTriangleVars
    /\ InitRunVars

\* the backend calls Pipeline::draw(.., encoder, jobs, target, ..): the loop
\* is entered, or left at once when the slice is empty
PipelineDraw ==
    /\ pipeline.pc = "idle"
    /\ \E jobs \in JobLists :
          pipeline' = [pipeline EXCEPT
                          !.jobs = jobs,
                          !.pc = IF jobs = <<>> THEN "done" ELSE "begin"]
    /\ UNCHANGED <<uiVars, eventVars, drawVars, gfxVars, layoutVars,
                   triangleVars, app, loop>>

\* the job of the iteration gets a render pass of its own
PipelineBeginPass ==
    /\ pipeline.pc = "begin"
    /\ pipeline' = [pipeline EXCEPT
                       !.render_pass = BeginRenderPass("target"),
                       !.passes = @ + 1,
                       !.pc = "viewport"]
    /\ UNCHANGED <<uiVars, eventVars, drawVars, gfxVars, layoutVars,
                   triangleVars, app, loop>>

\* the viewport of the pass is set to the bounds of the job
PipelineSetViewport ==
    /\ pipeline.pc = "viewport"
    /\ pipeline' = [pipeline EXCEPT
                       !.render_pass =
                           RenderPassSetViewport(
                               @, pipeline.jobs[pipeline.next].bounds),
                       !.pc = "execute"]
    /\ UNCHANGED <<uiVars, eventVars, drawVars, gfxVars, layoutVars,
                   triangleVars, app, loop>>

\* the bundle of the job is executed; the pass ends with the iteration
PipelineExecute ==
    /\ pipeline.pc = "execute"
    /\ pipeline' = [pipeline EXCEPT
                       !.executed =
                           Append(@, RenderPassExecuteBundles(
                                         pipeline.render_pass,
                                         pipeline.jobs[pipeline.next].bundle)),
                       !.next = @ + 1,
                       !.pc = IF pipeline.next = Len(pipeline.jobs)
                              THEN "done" ELSE "begin"]
    /\ UNCHANGED <<uiVars, eventVars, drawVars, gfxVars, layoutVars,
                   triangleVars, app, loop>>

NextPipeline ==
    PipelineDraw \/ PipelineBeginPass \/ PipelineSetViewport
    \/ PipelineExecute

SpecPipeline == InitPipeline /\ [][NextPipeline]_vars

\* C23: Pipeline::draw executes the bundles of the jobs in slice order, each
\* in a render pass of its own and under a viewport that was set to the
\* bounds of its own job before; at no time has a bundle been executed
\* under another viewport or under none, no job is skipped or run twice,
\* and an empty slice begins no pass and executes nothing.
C23_JobsUnderOwnViewport ==
    /\ Len(pipeline.executed) <= Len(pipeline.jobs)
    /\ \A k \in 1..Len(pipeline.executed) :
          /\ pipeline.executed[k].bundle = pipeline.jobs[k].bundle
          /\ pipeline.executed[k].viewport = Some(pipeline.jobs[k].bounds)
    /\ pipeline.passes - Len(pipeline.executed) \in {0, 1}
    /\ pipeline.passes = Len(pipeline.executed)
          <=> pipeline.pc \in {"idle", "begin", "done"}
    /\ pipeline.pc = "done"
          => /\ Len(pipeline.executed) = Len(pipeline.jobs)
             /\ pipeline.passes = Len(pipeline.jobs)
    /\ pipeline.jobs = <<>>
          => pipeline.executed = <<>> /\ pipeline.passes = 0

\* a run over as many jobs as the bound allows, the first two of different
\* bounds and of the same bundle
C23_Witness ==
    /\ pipeline.pc = "done"
    /\ Len(pipeline.jobs) = MaxJobs
    /\ pipeline.jobs[1].bounds # pipeline.jobs[2].bounds
    /\ pipeline.jobs[1].bundle = pipeline.jobs[2].bundle
    /\ Len(pipeline.executed) = MaxJobs
    /\ pipeline.executed[2].viewport = Some(pipeline.jobs[2].bounds)

----------------------------------------------------------------------------
(* The frame loop *)

\* what arrives from outside: a tick of the timer of the subscription and a
\* drag of one of the sliders
TimerTick == "TimerTick"
SliderDrag == "SliderDrag"
LoopEvents == {TimerTick, SliderDrag}

\* the messages a widget of the view can emit for an event
Emits(event) ==
    IF event = TimerTick THEN { <<MessageTimeTick>> }
    ELSE { <<>>, <<RadiusChanged(F32(1))>>, <<SpeedChanged(10)>> }

InitLoop ==
    /\ InitUiIdle
    /\ InitGfxVars
    /\ InitLayoutVars
    /\ InitTriangleVars
    /\ InitRunVars

\* what no step of the frame loop touches
loopRest == <<uiVars, status, call, built, drawVars, gfxVars, pipeline>>

\* an event arrives and waits for the dispatch pass of the next frame
EventArrives ==
    /\ Len(loop.pending) + Len(loop.taken) + Len(messages) < MaxQueue
    /\ \E event \in LoopEvents :
          loop' = [loop EXCEPT !.pending = Append(@, event),
                               !.last = "event"]
    /\ UNCHANGED <<loopRest, messages, layoutVars, triangleVars, app>>

\* a frame starts: the application builds the user interface
FrameView ==
    /\ ~loop.tree
    /\ messages = <<>>
    /\ loop.frames < MaxFrames
    /\ LET v == ExampleView(app, triangle_state)
       IN  /\ triangle_state' = v.state
           /\ loop' = [loop EXCEPT !.tree = TRUE,
                                    !.borrowed = v.borrowed,
                                    !.last = "view"]
    /\ device' = [device EXCEPT !.last = "new", !.size = app.size,
                                !.rotation = app.angle]
    /\ UNCHANGED <<loopRest, messages, layoutVars, app>>

LayoutBegin ==
    /\ loop.tree
    /\ loop.layout = "idle"
    /\ loop' = [loop EXCEPT !.layout = "running", !.last = "layout"]
    /\ UNCHANGED <<loopRest, messages, layoutVars, triangleVars, app>>

LayoutEnd ==
    /\ loop.layout = "running"
    /\ laid' = [done |-> TRUE,
                value |-> TriangleLayout(TriangleOf(triangle_state),
                                         renderer, offer)]
    /\ loop' = [loop EXCEPT !.layout = "done", !.last = "layout"]
    /\ UNCHANGED <<loopRest, messages, offer, hasher, triangleVars, app>>

\* the events that arrived since the last dispatch pass are taken
DispatchBegin ==
    /\ loop.layout = "done"
    /\ loop.dispatch = "idle"
    /\ loop.pending # <<>>
    /\ loop' = [loop EXCEPT !.dispatch = "running",
                            !.taken = loop.pending,
                            !.pending = <<>>,
                            !.arrived = TRUE,
                            !.last = "dispatch"]
    /\ UNCHANGED <<loopRest, messages, layoutVars, triangleVars, app>>

\* no event arrived: the frame has no dispatch pass
DispatchSkip ==
    /\ loop.layout = "done"
    /\ loop.dispatch = "idle"
    /\ loop.pending = <<>>
    /\ loop' = [loop EXCEPT !.dispatch = "skipped",
                            !.arrived = FALSE,
                            !.last = "dispatch"]
    /\ UNCHANGED <<loopRest, messages, layoutVars, triangleVars, app>>

\* one event is handed to the user interface, whose widgets push messages
DispatchEvent ==
    /\ loop.dispatch = "running"
    /\ loop.taken # <<>>
    /\ \E emitted \in Emits(Head(loop.taken)) :
          messages' = messages \o emitted
    /\ loop' = [loop EXCEPT !.taken = Tail(@), !.last = "dispatch"]
    /\ UNCHANGED <<loopRest, layoutVars, triangleVars, app>>

DispatchEnd ==
    /\ loop.dispatch = "running"
    /\ loop.taken = <<>>
    /\ loop' = [loop EXCEPT !.dispatch = "done", !.last = "dispatch"]
    /\ UNCHANGED <<loopRest, messages, layoutVars, triangleVars, app>>

DrawBegin ==
    /\ loop.layout = "done"
    /\ loop.dispatch \in {"done", "skipped"}
    /\ loop.draw = "idle"
    /\ loop' = [loop EXCEPT !.draw = "running", !.last = "draw"]
    /\ UNCHANGED <<loopRest, messages, layoutVars, triangleVars, app>>

\* the Triangle is drawn
DrawEnd ==
    /\ loop.draw = "running"
    /\ triangle_state' = TriangleDraw(triangle_state, device.created)
    /\ device' = [device EXCEPT
                     !.last = "draw",
                     !.drawn = @ + 1,
                     !.created = IF triangle_state'.inner
                                    # triangle_state.inner
                                 THEN @ + 1 ELSE @,
                     !.creator = IF triangle_state'.inner
                                    # triangle_state.inner
                                 THEN "draw" ELSE @]
    /\ loop' = [loop EXCEPT !.draw = "done", !.last = "draw"]
    /\ UNCHANGED <<loopRest, messages, layoutVars, app>>

\* the frame ends: the user interface is dropped, and its borrow with it
FrameEnd ==
    /\ loop.draw = "done"
    /\ loop' = [loop EXCEPT !.tree = FALSE, !.borrowed = FALSE,
                            !.layout = "idle", !.dispatch = "idle",
                            !.draw = "idle", !.arrived = FALSE,
                            !.frames = @ + 1,
                            !.last = "end"]
    /\ UNCHANGED <<loopRest, messages, layoutVars, triangleVars, app>>

\* Example::update(&mut self, message) takes the next message of the queue;
\* it cannot be called while an Element borrows the Example
Update ==
    /\ ~loop.borrowed
    /\ messages # <<>>
    /\ app' = ExampleUpdate(app, Head(messages))
    /\ messages' = Tail(messages)
    /\ loop' = [loop EXCEPT !.last = "update"]
    /\ UNCHANGED <<loopRest, layoutVars, triangleVars>>

NextLoop ==
    \/ EventArrives \/ FrameView \/ LayoutBegin \/ LayoutEnd
    \/ DispatchBegin \/ DispatchSkip \/ DispatchEvent \/ DispatchEnd
    \/ DrawBegin \/ DrawEnd \/ FrameEnd \/ Update

SpecLoop == InitLoop /\ [][NextLoop]_vars

\* the passes that are in progress
Running == { p \in {"layout", "dispatch", "draw"} : loop[p] = "running" }

\* at most one pass is in progress; dispatch follows layout and runs only
\* for events that arrived; draw follows both; no pass outlives its frame
PassesInOrder ==
    /\ Cardinality(Running) <= 1
    /\ loop.dispatch # "idle" => loop.layout = "done"
    /\ loop.dispatch \in {"running", "done"} <=> loop.arrived /\ loop.tree
    /\ loop.draw # "idle"
          => loop.layout = "done" /\ loop.dispatch \in {"done", "skipped"}
    /\ ~loop.tree
          => loop.layout = "idle" /\ loop.dispatch = "idle"
             /\ loop.draw = "idle"

\* a message is pushed only inside a dispatch pass and handed to update
\* only when no pass is in progress; a frame ends only when its passes are
\* complete, and the next starts only after it has ended
PassesComplete ==
    /\ Len(messages') > Len(messages) => loop.dispatch = "running"
    /\ Len(messages') < Len(messages)
          => Running = {} /\ loop.dispatch \in {"idle", "done", "skipped"}
    /\ app' # app => Running = {}
    /\ loop'.frames # loop.frames
          => /\ loop.layout = "done"
             /\ loop.dispatch \in {"done", "skipped"}
             /\ loop.draw = "done"
    /\ (loop'.tree /\ ~loop.tree)
          => /\ loop'.layout = "idle"
             /\ loop'.dispatch = "idle"
             /\ loop'.draw = "idle"

\* C21: in every frame the layout pass runs first, then the dispatch pass
\* (only when an event arrived since the last one), then the draw pass;
\* each is complete before the next begins and before the next frame
\* starts, no two passes are in progress at once, and the messages pushed
\* in a dispatch pass reach Example::update only after that pass is over.
C21_PassesSequential == []PassesInOrder /\ [][PassesComplete]_vars

\* the second frame begins after a frame whose dispatch pass pushed a tick
\* that update has applied
C21_Witness ==
    /\ loop.frames = 1
    /\ loop.tree
    /\ loop.last = "view"
    /\ app.angle = ExampleNew.speed
    /\ messages = <<>>
    /\ triangle_state.rotation = app.angle
    /\ triangle_state.inner.v.writes = 1

====
